---- MODULE Spec2Model ----
(***************************************************************************)
(* A model of two kernel resource pools of the xv6 lab tree:               *)
(*   - the physical page allocator with page reference counts              *)
(*     (kernel/kalloc.c), and                                              *)
(*   - the hash-bucketed buffer cache (kernel/bio.c, src/unnamed/part_003).*)
(* Every kernel function is split at its lock operations: taking a lock is *)
(* one step, the critical section together with the release is the next.   *)
(***************************************************************************)
EXTENDS Integers, Sequences, FiniteSets, TLC

(***************************************************************************)
(* Bounds of the model.                                                    *)
(***************************************************************************)
\* number of page frames between end and PHYSTOP
NFrames == 2
\* number of harts (CPUs) running allocator calls
NHarts == 2

\* number of buffers in the cache (NBUF of param.h, scaled down)
BaseNBUF == 2
\* number of hash buckets (BUCKETSIZE of bio.c, scaled down)
BaseBUCKETSIZE == 2
\* number of processes using the buffer cache
NProcs == 2
\* the callers read blocks 0..BaseMaxBlock of the disk
BaseMaxBlock == 2
\* the clock stops at MaxTicks
MaxTicks == 1
\* a buffer is pinned at most MaxPins times at once
MaxPins == 1
\* the holders of a buffer store the values 0..MaxData into it
MaxData == 0
\* and only into blocks 0..MaxWBlock
MaxWBlock == 0

(***************************************************************************)
(* kernel/kalloc.c: addresses.                                             *)
(***************************************************************************)
PGSIZE == 4096
NULL == 0
\* the byte patterns of the two memset calls, as the value they leave in
\* the first word (struct run.next) of a page
JUNK1 == 1
JUNK5 == 5

PGROUNDUP(a) == ((a + PGSIZE - 1) \div PGSIZE) * PGSIZE

\* first address after the kernel image (kernel.ld); not page aligned
end == PGSIZE + 16

PHYSTOP == PGROUNDUP(end) + NFrames * PGSIZE

\* the pages freerange() hands to kfree(): p = PGROUNDUP(pa_start);
\* p + PGSIZE <= pa_end; p += PGSIZE
RECURSIVE freerange(_, _)
freerange(p, pa_end) ==
  IF p + PGSIZE <= pa_end THEN <<p>> \o freerange(p + PGSIZE, pa_end) ELSE <<>>

FrameSeq == freerange(PGROUNDUP(end), PHYSTOP)

Frames == {FrameSeq[i] : i \in 1..Len(FrameSeq)}

\* idx = pa >> 12
PageIdx(pa) == pa \div PGSIZE

Harts == 1..NHarts
\* a spinlock's holder when it is free (initlock)
NoHart == 0

\* arguments a caller can hand to kfree(): the frames, a misaligned address
\* inside the range, the aligned page below end, and PHYSTOP
BadAddrs == {PGROUNDUP(end) + 8, PGROUNDUP(end) - PGSIZE, PHYSTOP}

\* faulty variant: the alignment test is missing
KfreeInvalidNoAlign(pa) == pa < end \/ pa >= PHYSTOP

\* the test at the head of kfree()
KfreeInvalid(pa) == (pa % PGSIZE) # 0 \/ pa < end \/ pa >= PHYSTOP

VARIABLES
  page_ref_cnt,      \* [page index -> 0..255]   unsigned char page_ref_cnt[]
  page_ref_cnt_lock, \* hart holding the spinlock, or NoHart
  kmem_lock,         \* hart holding kmem.lock, or NoHart
  kmem_freelist,     \* kmem.freelist: a frame, NULL, or a junk pointer
  run_next,          \* [frame -> r->next], the first word of the page
  mem,               \* [frame -> fill byte of the rest of the page]
  kpc,               \* [hart -> position in kalloc/kfree/add_ref_cnt/...]
  kpa,               \* [hart -> pa (kfree, *_ref_cnt) or r (kalloc)]
  kdst,              \* [hart -> hart its add_ref_cnt() call adds a mapping for]
  kret,              \* [hart -> <<v>>: its last call was kalloc() and returned v]
  owned,             \* [hart -> frames got from kalloc() and not yet kfree'd]
  shared             \* [hart -> frames mapped for it by add_ref_cnt(), not yet kfree'd]

kvars == <<page_ref_cnt, page_ref_cnt_lock, kmem_lock, kmem_freelist, run_next,
           mem, kpc, kpa, kdst, kret, owned, shared>>

(***************************************************************************)
(* kernel/bio.c is compiled with NBUF buffers and BUCKETSIZE buckets.  The *)
(* model examines two configurations of these constants and of the range   *)
(* of blocks the callers read; conf holds the one in use and never changes.*)
(***************************************************************************)
VARIABLE conf   \* [nbuf, bucketsize, maxblock]

\* as many buffers as buckets, and three blocks
BaseConf ==
  [nbuf |-> BaseNBUF, bucketsize |-> BaseBUCKETSIZE, maxblock |-> BaseMaxBlock]

\* one buffer more than there are processes, every buffer in a bucket of its
\* own after binit(), and one bucket that is the home of two blocks
SpareConf ==
  [nbuf |-> NProcs + 1, bucketsize |-> NProcs + 1, maxblock |-> NProcs + 1]

NBUF == conf.nbuf
BUCKETSIZE == conf.bucketsize
MaxBlock == conf.maxblock

(***************************************************************************)
(* Buffers are numbered 1..NBUF (buf[i-1]), the list heads                 *)
(* buckets[k].elemhead are the nodes NBUF+1+k, and 0 is the null pointer.  *)
(***************************************************************************)
Bufs == 1..NBUF
Buckets == 0..(BUCKETSIZE - 1)
elemhead(k) == NBUF + 1 + k
Nodes == 1..(NBUF + BUCKETSIZE)
Procs == 1..NProcs
NoProc == 0
Devs == {1}
Blocks == 0..MaxBlock
\* (uint)-1, the start value of lru.  The source has 2^32 - 1; TLC integers
\* end at 2^31 - 1, and timestamps stay below MaxTicks, so the largest
\* value TLC has stands for it.
UINT_MAX == 2147483647

VARIABLES
  b_dev,        \* [buffer -> dev]
  b_blockno,    \* [buffer -> blockno]
  b_valid,      \* [buffer -> valid]
  b_refcnt,     \* [buffer -> refcnt]
  b_timestamp,  \* [buffer -> timestamp]
  b_lock,       \* [buffer -> process holding the sleeplock, or NoProc]
  b_data,       \* [buffer -> data]
  b_next,       \* [node -> next]
  b_prev,       \* [node -> prev]
  bucket_lock,  \* [bucket -> process holding buckets[k].lock, or NoProc]
  ticks,        \* the clock
  disk,         \* [dev, blockno -> contents of the disk block]
  ppc,          \* [process -> position in bread/brelse/bpin/bunpin]
  pl,           \* [process -> locals: dev, blockno, target, steal, b]
  held,         \* [process -> buffers bread() returned to it, not yet brelse'd]
  pins,         \* [buffer -> bpin() calls not yet undone by bunpin()]
  released,     \* history: the buffers in the order of their last brelse()
  dirty,        \* history: [buffer -> data changed since it was loaded or written]
  wslot,        \* history: [blockno -> the buffer of the last bwrite() of the block]
  sawfull       \* history: [process -> every buffer had refcnt > 0 at some
                \* moment of its running bget() call]

bufvars == <<b_dev, b_blockno, b_valid, b_refcnt, b_timestamp, b_lock, b_data,
             b_next, b_prev>>

hist == <<released, dirty, wslot>>

bvars == <<conf, bufvars, bucket_lock, ticks, disk, ppc, pl, held, pins, hist,
           sawfull>>

vars == <<kvars, bvars>>

(***************************************************************************)
(* kinit(): every refcount is 0 (BSS) and freerange() pushes the frames in *)
(* ascending order, so the highest frame is the head of the list.          *)
(***************************************************************************)
KInit ==
  /\ page_ref_cnt = [i \in 0..(PageIdx(PHYSTOP) - 1) |-> 0]
  /\ page_ref_cnt_lock = NoHart
  /\ kmem_lock = NoHart
  /\ kmem_freelist = FrameSeq[Len(FrameSeq)]
  /\ run_next = [f \in Frames |-> IF f = FrameSeq[1] THEN NULL ELSE f - PGSIZE]
  /\ mem = [f \in Frames |-> JUNK1]
  /\ kpc = [t \in Harts |-> "idle"]
  /\ kpa = [t \in Harts |-> NULL]
  /\ owned = [t \in Harts |-> {}]
  /\ kdst = [t \in Harts |-> NoHart]
  /\ kret = [t \in Harts |-> <<>>]
  /\ shared = [t \in Harts |-> {}]

\* the value of the locals of a process that is in no call (wr is history:
\* see Written)
NoLocals == [dev |-> 0, blockno |-> 0, target |-> 0, steal |-> FALSE, b |-> NULL,
             wr |-> <<>>]

\* history: <<c>> if the last bwrite() of the block stored c and the buffer
\* used for it has since been recycled for another block, else <<>>
Written(dev, blockno) ==
  IF wslot[blockno] # NULL /\ b_blockno[wslot[blockno]] # blockno
    THEN <<disk[dev, blockno]>>
    ELSE <<>>

\* the buffers binit() has put into bucket k so far, most recent first:
\* buf[i] goes to the head of bucket i % BUCKETSIZE
RECURSIVE binit_list(_, _)
binit_list(k, n) ==
  IF n = 0 THEN <<>>
  ELSE IF (n - 1) % BUCKETSIZE = k THEN <<n>> \o binit_list(k, n - 1)
  ELSE binit_list(k, n - 1)

\* the circular list head -> l[1] -> ... -> l[Len(l)] -> head of bucket k
NextIn(k, n) ==
  LET l == binit_list(k, NBUF)
      c == <<elemhead(k)>> \o l \o <<elemhead(k)>>
      i == CHOOSE j \in 1..(Len(l) + 1) : c[j] = n
  IN c[i + 1]

PrevIn(k, n) ==
  LET l == binit_list(k, NBUF)
      c == <<elemhead(k)>> \o l \o <<elemhead(k)>>
      i == CHOOSE j \in 2..(Len(l) + 2) : c[j] = n
  IN c[i - 1]

BucketOfNode(n) == IF n > NBUF THEN n - NBUF - 1 ELSE (n - 1) % BUCKETSIZE

\* binit(): all locks free, every buffer zeroed and stamped with ticks
binit ==
  /\ b_dev = [b \in Bufs |-> 0]
  /\ b_blockno = [b \in Bufs |-> 0]
  /\ b_valid = [b \in Bufs |-> 0]
  /\ b_refcnt = [b \in Bufs |-> 0]
  /\ b_timestamp = [b \in Bufs |-> 0]
  /\ b_lock = [b \in Bufs |-> NoProc]
  /\ b_data = [b \in Bufs |-> 0]
  /\ b_next = [n \in Nodes |-> NextIn(BucketOfNode(n), n)]
  /\ b_prev = [n \in Nodes |-> PrevIn(BucketOfNode(n), n)]
  /\ bucket_lock = [k \in Buckets |-> NoProc]
  /\ ticks = 0
  /\ disk = [d \in Devs, n \in Blocks |-> n + 1]
  /\ ppc = [p \in Procs |-> "idle"]
  /\ pl = [p \in Procs |-> NoLocals]
  /\ held = [p \in Procs |-> {}]
  /\ pins = [b \in Bufs |-> 0]
  /\ released = <<>>
  /\ dirty = [b \in Bufs |-> FALSE]
  /\ wslot = [n \in Blocks |-> NULL]
  /\ sawfull = [p \in Procs |-> FALSE]

\* binit() of the kernel compiled with the base configuration
BInit == conf = BaseConf /\ binit

Init == KInit /\ BInit

\* kinit() and binit() of the kernel compiled with the spare buffer
SpareInit == KInit /\ conf = SpareConf /\ binit

(***************************************************************************)
(* Helpers on the free list (pointer chasing with bounded fuel: a list     *)
(* that a double kfree() has made cyclic still yields a finite set).       *)
(***************************************************************************)
RECURSIVE Reach(_, _)
Reach(p, fuel) ==
  IF p \notin Frames \/ fuel = 0 THEN {} ELSE {p} \cup Reach(run_next[p], fuel - 1)

\* the frames linked into kmem.freelist
FreeSet == Reach(kmem_freelist, NFrames)

\* the frames hart t has mapped
Mapped(t) == owned[t] \cup shared[t]

\* hart u is about to get a mapping of f from an add_ref_cnt() call
Pending(u, f) == \E t \in Harts : kpc[t] \in {"ar_acq", "ar_inc"} /\ kpa[t] = f /\ kdst[t] = u

KGoto(t, l) == kpc' = [kpc EXCEPT ![t] = l] /\ UNCHANGED bvars

(***************************************************************************)
(* kalloc()                                                                *)
(***************************************************************************)
KallocCall(t) ==
  /\ kpc[t] = "idle"
  /\ KGoto(t, "ka_acq")
  /\ kret' = [kret EXCEPT ![t] = <<>>]
  /\ UNCHANGED <<page_ref_cnt, page_ref_cnt_lock, kmem_lock, kmem_freelist,
                 run_next, mem, kpa, kdst, owned, shared>>

\* acquire(&kmem.lock)
KallocAcquire(t) ==
  /\ kpc[t] = "ka_acq"
  /\ kmem_lock = NoHart
  /\ kmem_lock' = t
  /\ KGoto(t, "ka_pop")
  /\ UNCHANGED <<page_ref_cnt, page_ref_cnt_lock, kmem_freelist, run_next, mem,
                 kpa, kdst, kret, owned, shared>>

\* faulty variant: the head is read but the list is not advanced
KallocPopNoUnlink(t) ==
  /\ kpc[t] = "ka_pop"
  /\ kpa' = [kpa EXCEPT ![t] = kmem_freelist]
  /\ IF kmem_freelist = NULL
       THEN KGoto(t, "idle") /\ kret' = [kret EXCEPT ![t] = <<NULL>>]
       ELSE KGoto(t, "ka_fill") /\ UNCHANGED kret
  /\ kmem_lock' = NoHart
  /\ UNCHANGED <<page_ref_cnt, page_ref_cnt_lock, kmem_freelist, run_next, mem,
                 kdst, owned, shared>>

\* faulty variant: an empty list is treated as fatal
KallocPopPanicEmpty(t) ==
  /\ kpc[t] = "ka_pop"
  /\ kpa' = [kpa EXCEPT ![t] = kmem_freelist]
  /\ IF kmem_freelist = NULL
       THEN KGoto(t, "panic") /\ UNCHANGED <<kmem_freelist, kmem_lock>>
       ELSE /\ KGoto(t, "ka_fill")
            /\ kmem_freelist' = run_next[kmem_freelist]
            /\ kmem_lock' = NoHart
  /\ UNCHANGED <<page_ref_cnt, page_ref_cnt_lock, run_next, mem, kdst, kret,
                 owned, shared>>

\* faulty variant: a hart that has taken a frame finds the list empty
KallocPopNoSteal(t) ==
  /\ kpc[t] = "ka_pop"
  /\ LET r == IF owned[t] # {} THEN NULL ELSE kmem_freelist IN
       /\ kpa' = [kpa EXCEPT ![t] = r]
       /\ IF r = NULL
            THEN /\ KGoto(t, "idle")
                 /\ kret' = [kret EXCEPT ![t] = <<NULL>>]
                 /\ UNCHANGED kmem_freelist
            ELSE /\ KGoto(t, "ka_fill")
                 /\ kmem_freelist' = run_next[r]
                 /\ UNCHANGED kret
  /\ kmem_lock' = NoHart
  /\ UNCHANGED <<page_ref_cnt, page_ref_cnt_lock, run_next, mem, kdst, owned, shared>>

\* r = kmem.freelist; if(r) kmem.freelist = r->next; release(&kmem.lock);
\* with r == 0 the function returns 0 right away.  A junk r (only after a
\* double kfree) faults on r->next with the lock still held.
KallocPop(t) ==
  /\ kpc[t] = "ka_pop"
  /\ LET r == kmem_freelist IN
       /\ kpa' = [kpa EXCEPT ![t] = r]
       /\ IF r = NULL
            THEN /\ KGoto(t, "idle")
                 /\ kret' = [kret EXCEPT ![t] = <<NULL>>]
                 /\ kmem_lock' = NoHart
                 /\ UNCHANGED kmem_freelist
            ELSE IF r \in Frames
            THEN /\ KGoto(t, "ka_fill")
                 /\ kmem_freelist' = run_next[r]
                 /\ kmem_lock' = NoHart
                 /\ UNCHANGED kret
            ELSE /\ KGoto(t, "trap")
                 /\ UNCHANGED <<kmem_freelist, kmem_lock, kret>>
  /\ UNCHANGED <<page_ref_cnt, page_ref_cnt_lock, run_next, mem, kdst, owned, shared>>

\* memset((char*)r, 5, PGSIZE)
KallocFill(t) ==
  /\ kpc[t] = "ka_fill"
  /\ mem' = [mem EXCEPT ![kpa[t]] = JUNK5]
  /\ run_next' = [run_next EXCEPT ![kpa[t]] = JUNK5]
  /\ KGoto(t, "ka_init_acq")
  /\ UNCHANGED <<page_ref_cnt, page_ref_cnt_lock, kmem_lock, kmem_freelist,
                 kpa, kdst, kret, owned, shared>>

\* init_ref_cnt(): acquire(&page_ref_cnt_lock)
InitRefAcquire(t) ==
  /\ kpc[t] = "ka_init_acq"
  /\ page_ref_cnt_lock = NoHart
  /\ page_ref_cnt_lock' = t
  /\ KGoto(t, "ka_init")
  /\ UNCHANGED <<page_ref_cnt, kmem_lock, kmem_freelist, run_next, mem, kpa,
                 kdst, kret, owned, shared>>

\* faulty variant: the count is incremented instead of set
InitRefSetIncrement(t) ==
  /\ kpc[t] = "ka_init"
  /\ page_ref_cnt' = [page_ref_cnt EXCEPT ![PageIdx(kpa[t])] = (@ + 1) % 256]
  /\ page_ref_cnt_lock' = NoHart
  /\ owned' = [owned EXCEPT ![t] = @ \cup {kpa[t]}]
  /\ kret' = [kret EXCEPT ![t] = <<kpa[t]>>]
  /\ kpa' = [kpa EXCEPT ![t] = NULL]
  /\ KGoto(t, "idle")
  /\ UNCHANGED <<kmem_lock, kmem_freelist, run_next, mem, kdst, shared>>

\* page_ref_cnt[idx] = 1; release(&page_ref_cnt_lock); return (void *)r;
InitRefSet(t) ==
  /\ kpc[t] = "ka_init"
  /\ page_ref_cnt' = [page_ref_cnt EXCEPT ![PageIdx(kpa[t])] = 1]
  /\ page_ref_cnt_lock' = NoHart
  /\ owned' = [owned EXCEPT ![t] = @ \cup {kpa[t]}]
  /\ kret' = [kret EXCEPT ![t] = <<kpa[t]>>]
  /\ kpa' = [kpa EXCEPT ![t] = NULL]
  /\ KGoto(t, "idle")
  /\ UNCHANGED <<kmem_lock, kmem_freelist, run_next, mem, kdst, shared>>

(***************************************************************************)
(* kfree(pa)                                                               *)
(***************************************************************************)
\* the call kfree(pa)
KfreeEnter(t, pa) ==
  /\ kpc[t] = "idle"
  /\ KGoto(t, "kf_check")
  /\ kpa' = [kpa EXCEPT ![t] = pa]
  /\ kret' = [kret EXCEPT ![t] = <<>>]
  /\ UNCHANGED <<page_ref_cnt, page_ref_cnt_lock, kmem_lock, kmem_freelist,
                 run_next, mem, kdst>>

\* a caller that follows the contract, one kfree per mapping removed: the
\* hart frees a frame it got from kalloc() ...
KfreeOwnedCall(t) ==
  \E pa \in owned[t] :
    /\ KfreeEnter(t, pa)
    /\ owned' = [owned EXCEPT ![t] = @ \ {pa}]
    /\ UNCHANGED shared

\* ... or removes a mapping that add_ref_cnt() had added
KfreeSharedCall(t) ==
  \E pa \in shared[t] :
    /\ KfreeEnter(t, pa)
    /\ shared' = [shared EXCEPT ![t] = @ \ {pa}]
    /\ UNCHANGED owned

\* a caller that passes an address outside the managed frames
KfreeBadCall(t) ==
  \E pa \in BadAddrs : KfreeEnter(t, pa) /\ UNCHANGED <<owned, shared>>

\* if(pa % PGSIZE != 0 || pa < end || pa >= PHYSTOP) panic("kfree");
KfreeCheck(t) ==
  /\ kpc[t] = "kf_check"
  /\ IF KfreeInvalid(kpa[t]) THEN KGoto(t, "panic") ELSE KGoto(t, "kf_acq")
  /\ UNCHANGED <<page_ref_cnt, page_ref_cnt_lock, kmem_lock, kmem_freelist,
                 run_next, mem, kpa, kdst, kret, owned, shared>>

\* acquire(&page_ref_cnt_lock)
KfreeAcquireRef(t) ==
  /\ kpc[t] = "kf_acq"
  /\ page_ref_cnt_lock = NoHart
  /\ page_ref_cnt_lock' = t
  /\ KGoto(t, "kf_dec")
  /\ UNCHANGED <<page_ref_cnt, kmem_lock, kmem_freelist, run_next, mem, kpa,
                 kdst, kret, owned, shared>>

\* faulty variant: page_ref_cnt_lock stays held when the count has reached 0
KfreeDecKeepRefLock(t) ==
  /\ kpc[t] = "kf_dec"
  /\ LET idx == PageIdx(kpa[t])
         n   == IF page_ref_cnt[idx] >= 1 THEN page_ref_cnt[idx] - 1
                                          ELSE page_ref_cnt[idx]
     IN /\ page_ref_cnt' = [page_ref_cnt EXCEPT ![idx] = n]
        /\ IF n > 0
             THEN /\ KGoto(t, "idle") /\ kpa' = [kpa EXCEPT ![t] = NULL]
                  /\ page_ref_cnt_lock' = NoHart
             ELSE /\ KGoto(t, "kf_fill")
                  /\ UNCHANGED <<kpa, page_ref_cnt_lock>>
  /\ UNCHANGED <<kmem_lock, kmem_freelist, run_next, mem, kdst, kret, owned, shared>>

\* faulty variant: the frame is reclaimed although references remain
KfreeDecReclaimShared(t) ==
  /\ kpc[t] = "kf_dec"
  /\ page_ref_cnt' = [page_ref_cnt EXCEPT ![PageIdx(kpa[t])] =
                        IF @ >= 1 THEN @ - 1 ELSE @]
  /\ KGoto(t, "kf_fill")
  /\ page_ref_cnt_lock' = NoHart
  /\ UNCHANGED <<kmem_lock, kmem_freelist, run_next, mem, kpa, kdst, kret, owned, shared>>

\* if(page_ref_cnt[idx] >= 1) page_ref_cnt[idx]--;
\* if(page_ref_cnt[idx] > 0){ release; return; }  release;
KfreeDec(t) ==
  /\ kpc[t] = "kf_dec"
  /\ LET idx == PageIdx(kpa[t])
         n   == IF page_ref_cnt[idx] >= 1 THEN page_ref_cnt[idx] - 1
                                          ELSE page_ref_cnt[idx]
     IN /\ page_ref_cnt' = [page_ref_cnt EXCEPT ![idx] = n]
        /\ IF n > 0
             THEN KGoto(t, "idle") /\ kpa' = [kpa EXCEPT ![t] = NULL]
             ELSE KGoto(t, "kf_fill") /\ UNCHANGED kpa
  /\ page_ref_cnt_lock' = NoHart
  /\ UNCHANGED <<kmem_lock, kmem_freelist, run_next, mem, kdst, kret, owned, shared>>

\* memset(pa, 1, PGSIZE); r = (struct run*)pa;
KfreeFill(t) ==
  /\ kpc[t] = "kf_fill"
  /\ mem' = [mem EXCEPT ![kpa[t]] = JUNK1]
  /\ run_next' = [run_next EXCEPT ![kpa[t]] = JUNK1]
  /\ KGoto(t, "kf_lock")
  /\ UNCHANGED <<page_ref_cnt, page_ref_cnt_lock, kmem_lock, kmem_freelist,
                 kpa, kdst, kret, owned, shared>>

\* acquire(&kmem.lock)
KfreeAcquireMem(t) ==
  /\ kpc[t] = "kf_lock"
  /\ kmem_lock = NoHart
  /\ kmem_lock' = t
  /\ KGoto(t, "kf_push")
  /\ UNCHANGED <<page_ref_cnt, page_ref_cnt_lock, kmem_freelist, run_next, mem,
                 kpa, kdst, kret, owned, shared>>

\* faulty variant: the frame is not linked into the list
KfreePushLost(t) ==
  /\ kpc[t] = "kf_push"
  /\ kmem_lock' = NoHart
  /\ kpa' = [kpa EXCEPT ![t] = NULL]
  /\ KGoto(t, "idle")
  /\ UNCHANGED <<page_ref_cnt, page_ref_cnt_lock, kmem_freelist, run_next, mem,
                 kdst, kret, owned, shared>>

\* r->next = kmem.freelist; kmem.freelist = r; release(&kmem.lock);
KfreePush(t) ==
  /\ kpc[t] = "kf_push"
  /\ run_next' = [run_next EXCEPT ![kpa[t]] = kmem_freelist]
  /\ kmem_freelist' = kpa[t]
  /\ kmem_lock' = NoHart
  /\ kpa' = [kpa EXCEPT ![t] = NULL]
  /\ KGoto(t, "idle")
  /\ UNCHANGED <<page_ref_cnt, page_ref_cnt_lock, mem, kdst, kret, owned, shared>>

(***************************************************************************)
(* add_ref_cnt(pa): a hart that has pa mapped creates one more mapping of  *)
(* it, without copying, for another hart's address space.                  *)
(***************************************************************************)
AddRefCall(t) ==
  \E pa \in Mapped(t), u \in Harts \ {t} :
    /\ kpc[t] = "idle"
    /\ pa \notin Mapped(u)
    /\ ~Pending(u, pa)
    /\ KGoto(t, "ar_acq")
    /\ kpa' = [kpa EXCEPT ![t] = pa]
    /\ kdst' = [kdst EXCEPT ![t] = u]
    /\ kret' = [kret EXCEPT ![t] = <<>>]
    /\ UNCHANGED <<page_ref_cnt, page_ref_cnt_lock, kmem_lock, kmem_freelist,
                   run_next, mem, owned, shared>>

\* acquire(&page_ref_cnt_lock)
AddRefAcquire(t) ==
  /\ kpc[t] = "ar_acq"
  /\ page_ref_cnt_lock = NoHart
  /\ page_ref_cnt_lock' = t
  /\ KGoto(t, "ar_inc")
  /\ UNCHANGED <<page_ref_cnt, kmem_lock, kmem_freelist, run_next, mem, kpa,
                 kdst, kret, owned, shared>>

\* page_ref_cnt[idx]++ (unsigned char); release(&page_ref_cnt_lock);
\* the new mapping (of hart kdst[t]) is in place
AddRefInc(t) ==
  /\ kpc[t] = "ar_inc"
  /\ page_ref_cnt' = [page_ref_cnt EXCEPT ![PageIdx(kpa[t])] = (@ + 1) % 256]
  /\ page_ref_cnt_lock' = NoHart
  /\ shared' = IF kdst[t] = NoHart THEN shared
               ELSE [shared EXCEPT ![kdst[t]] = @ \cup {kpa[t]}]
  /\ kdst' = [kdst EXCEPT ![t] = NoHart]
  /\ kpa' = [kpa EXCEPT ![t] = NULL]
  /\ KGoto(t, "idle")
  /\ UNCHANGED <<kmem_lock, kmem_freelist, run_next, mem, kret, owned>>

\* add_ref_cnt(pa) once more for the first frame, by the hart that got it
\* from kalloc(): one more mapping of a page that is already shared
AddRefAgainCall(t) ==
  \E pa \in owned[t] \cap {FrameSeq[1]} :
    /\ kpc[t] = "idle"
    /\ KGoto(t, "ar_acq")
    /\ kpa' = [kpa EXCEPT ![t] = pa]
    /\ kret' = [kret EXCEPT ![t] = <<>>]
    /\ UNCHANGED <<page_ref_cnt, page_ref_cnt_lock, kmem_lock, kmem_freelist,
                   run_next, mem, kdst, owned, shared>>

\* the steps of kalloc() and kfree() and the calls of an owner
KAllocFreeStep(t) ==
  \/ KallocCall(t) \/ KallocAcquire(t) \/ KallocPop(t) \/ KallocFill(t)
  \/ InitRefAcquire(t) \/ InitRefSet(t)
  \/ KfreeOwnedCall(t) \/ KfreeCheck(t) \/ KfreeAcquireRef(t)
  \/ KfreeDec(t) \/ KfreeFill(t) \/ KfreeAcquireMem(t) \/ KfreePush(t)

\* sharing by add_ref_cnt()
KShareStep(t) ==
  \/ AddRefCall(t) \/ AddRefAcquire(t) \/ AddRefInc(t) \/ KfreeSharedCall(t)

KStep(t) == KAllocFreeStep(t) \/ KShareStep(t)

KNext == \E t \in Harts : KStep(t)

\* the allocator under callers that follow the contract of kalloc, kfree
\* and add_ref_cnt
SpecKmem == Init /\ [][KNext]_vars

KManyNext ==
  \E t \in Harts : \/ KAllocFreeStep(t)
                   \/ AddRefAgainCall(t) \/ AddRefAcquire(t) \/ AddRefInc(t)

\* the allocator when one page gets any number of additional mappings
SpecKmemMany == Init /\ [][KManyNext]_vars

KBadNext == \E t \in Harts : KAllocFreeStep(t) \/ KfreeBadCall(t)

\* the allocator when kfree is also handed addresses that are no frames
SpecKmemBad == Init /\ [][KBadNext]_vars

(***************************************************************************)
(* Callers outside the contract.                                           *)
(***************************************************************************)
\* add_ref_cnt(pa) for a frame the caller has not mapped; no mapping results
AddRefStrayCall(t) ==
  \E pa \in Frames \ Mapped(t) :
    /\ kpc[t] = "idle"
    /\ page_ref_cnt[PageIdx(pa)] < NHarts
    /\ KGoto(t, "ar_acq")
    /\ kpa' = [kpa EXCEPT ![t] = pa]
    /\ kret' = [kret EXCEPT ![t] = <<>>]
    /\ UNCHANGED <<page_ref_cnt, page_ref_cnt_lock, kmem_lock, kmem_freelist,
                   run_next, mem, kdst, owned, shared>>

\* kfree(pa) for a frame whose reference count is 0: a second kfree
KfreeStrayCall(t) ==
  \E pa \in Frames \ Mapped(t) :
    /\ page_ref_cnt[PageIdx(pa)] = 0
    /\ KfreeEnter(t, pa)
    /\ UNCHANGED <<owned, shared>>

\* minus_ref_cnt(pa)
MinusRefCall(t) ==
  \E pa \in Frames :
    /\ kpc[t] = "idle"
    /\ page_ref_cnt[PageIdx(pa)] <= 1
    /\ KGoto(t, "mr_acq")
    /\ kpa' = [kpa EXCEPT ![t] = pa]
    /\ kret' = [kret EXCEPT ![t] = <<>>]
    /\ UNCHANGED <<page_ref_cnt, page_ref_cnt_lock, kmem_lock, kmem_freelist,
                   run_next, mem, kdst, owned, shared>>

\* acquire(&page_ref_cnt_lock)
MinusRefAcquire(t) ==
  /\ kpc[t] = "mr_acq"
  /\ page_ref_cnt_lock = NoHart
  /\ page_ref_cnt_lock' = t
  /\ KGoto(t, "mr_dec")
  /\ UNCHANGED <<page_ref_cnt, kmem_lock, kmem_freelist, run_next, mem, kpa,
                 kdst, kret, owned, shared>>

\* page_ref_cnt[idx]-- (unsigned char); release(&page_ref_cnt_lock);
MinusRefDec(t) ==
  /\ kpc[t] = "mr_dec"
  /\ page_ref_cnt' = [page_ref_cnt EXCEPT ![PageIdx(kpa[t])] = (@ + 255) % 256]
  /\ page_ref_cnt_lock' = NoHart
  /\ kpa' = [kpa EXCEPT ![t] = NULL]
  /\ KGoto(t, "idle")
  /\ UNCHANGED <<kmem_lock, kmem_freelist, run_next, mem, kdst, kret, owned, shared>>

KRefNext == \E t \in Harts : KStep(t) \/ AddRefStrayCall(t)

\* the allocator when add_ref_cnt is also called for frames the caller has
\* not mapped (free frames included)
SpecKmemRef == Init /\ [][KRefNext]_vars

KMisuseNext == \E t \in Harts : KAllocFreeStep(t) \/ KfreeStrayCall(t)

\* the allocator when kfree is also called for frames that are already free
SpecKmemMisuse == Init /\ [][KMisuseNext]_vars

KMinusNext ==
  \E t \in Harts : \/ KAllocFreeStep(t)
                   \/ MinusRefCall(t) \/ MinusRefAcquire(t) \/ MinusRefDec(t)

\* the allocator when minus_ref_cnt is called for any frame
SpecKmemMinus == Init /\ [][KMinusNext]_vars

(***************************************************************************)
(* kernel/bio.c: list walks of bget_helper().                              *)
(***************************************************************************)
\* faulty variant: a buffer of the same hash bucket counts as the block
RECURSIVE ScanCachedByBucket(_, _, _, _, _)
ScanCachedByBucket(b, head, dev, blockno, fuel) ==
  IF b = head \/ b = NULL \/ fuel = 0 THEN NULL
  ELSE IF b_dev[b] = dev /\ b_blockno[b] % BUCKETSIZE = blockno % BUCKETSIZE THEN b
  ELSE ScanCachedByBucket(b_next[b], head, dev, blockno, fuel - 1)

\* for(b = head.next; b != &head; b = b->next)
\*   if(b->dev == dev && b->blockno == blockno) return b;
RECURSIVE ScanCached(_, _, _, _, _)
ScanCached(b, head, dev, blockno, fuel) ==
  IF b = head \/ b = NULL \/ fuel = 0 THEN NULL
  ELSE IF b_dev[b] = dev /\ b_blockno[b] = blockno THEN b
  ELSE ScanCached(b_next[b], head, dev, blockno, fuel - 1)

\* faulty variant: the scan passes over buffers that are valid
RECURSIVE ScanLRUInvalidOnly(_, _, _, _, _)
ScanLRUInvalidOnly(b, head, ret, lru, fuel) ==
  IF b = head \/ b = NULL \/ fuel = 0 THEN ret
  ELSE IF b_refcnt[b] = 0 /\ b_valid[b] = 0 /\ b_timestamp[b] < lru
         THEN ScanLRUInvalidOnly(b_next[b], head, b, b_timestamp[b], fuel - 1)
         ELSE ScanLRUInvalidOnly(b_next[b], head, ret, lru, fuel - 1)

\* faulty variant: the scan does not test b->refcnt
RECURSIVE ScanLRUHeld(_, _, _, _, _)
ScanLRUHeld(b, head, ret, lru, fuel) ==
  IF b = head \/ b = NULL \/ fuel = 0 THEN ret
  ELSE IF b_timestamp[b] < lru
         THEN ScanLRUHeld(b_next[b], head, b, b_timestamp[b], fuel - 1)
         ELSE ScanLRUHeld(b_next[b], head, ret, lru, fuel - 1)

\* uint lru = (uint)-1; ret = 0;
\* for(...) if(b->refcnt == 0 && b->timestamp < lru){ ret = b; lru = b->timestamp; }
RECURSIVE ScanLRU(_, _, _, _, _)
ScanLRU(b, head, ret, lru, fuel) ==
  IF b = head \/ b = NULL \/ fuel = 0 THEN ret
  ELSE IF b_refcnt[b] = 0 /\ b_timestamp[b] < lru
         THEN ScanLRU(b_next[b], head, b, b_timestamp[b], fuel - 1)
         ELSE ScanLRU(b_next[b], head, ret, lru, fuel - 1)

\* the buffers linked into bucket k, in list order
RECURSIVE Walk(_, _, _)
Walk(b, head, fuel) ==
  IF b = head \/ b = NULL \/ fuel = 0 THEN <<>>
  ELSE <<b>> \o Walk(b_next[b], head, fuel - 1)

BucketList(k) == Walk(b_next[elemhead(k)], elemhead(k), NBUF)

BucketSet(k) == {BucketList(k)[i] : i \in 1..Len(BucketList(k))}

\* the list after  b->next->prev = b->prev; b->prev->next = b->next;
UnlinkNext(nx, pv, b) == [nx EXCEPT ![pv[b]] = nx[b]]
UnlinkPrev(nx, pv, b) == [pv EXCEPT ![nx[b]] = pv[b]]

\* faulty variant: head.next->prev = b is missing
PushPrevNoBack(nx, pv, b, h) == [pv EXCEPT ![b] = h]

\* the list after  b->next = head.next; b->prev = &head;
\*                 head.next->prev = b; head.next = b;
PushNext(nx, pv, b, h) == [nx EXCEPT ![b] = nx[h], ![h] = b]
PushPrev(nx, pv, b, h) == [[pv EXCEPT ![b] = h] EXCEPT ![nx[h]] = b]

\* faulty variant: the loop of bget() stops one bucket early
RECURSIVE NextBucketShort(_, _)
NextBucketShort(i, cur) ==
  IF i >= BUCKETSIZE - 1 THEN BUCKETSIZE
  ELSE IF i # cur THEN i ELSE NextBucketShort(i + 1, cur)

\* the bucket the loop of bget() visits after bucket i (BUCKETSIZE: none)
RECURSIVE NextBucket(_, _)
NextBucket(i, cur) ==
  IF i >= BUCKETSIZE THEN BUCKETSIZE
  ELSE IF i # cur THEN i ELSE NextBucket(i + 1, cur)

\* faulty variant: the lock stays held
releaseKept(lk, k) == lk

\* release(&buckets[k].lock)
release(lk, k) == [lk EXCEPT ![k] = NoProc]

\* the sequence s without the element x
Remove(s, x) == SelectSeq(s, LAMBDA y : y # x)

\* every buffer has refcnt > 0
AllHeld == \A b \in Bufs : b_refcnt[b] > 0

\* history: the state a step leaves is recorded for every process whose
\* bget() has not chosen a buffer yet; the record is kept after a panic and
\* dropped when the call has its buffer
SawFull ==
  [q \in Procs |->
     IF ppc[q] \in {"bget_scan", "bget_lock"} THEN sawfull[q] \/ AllHeld
     ELSE IF ppc[q] = "panic" THEN sawfull[q]
     ELSE FALSE]

PGoto(p, l) ==
  /\ ppc' = [ppc EXCEPT ![p] = l]
  /\ sawfull' = SawFull
  /\ UNCHANGED <<kvars, conf>>

(***************************************************************************)
(* bread(dev, blockno) -> bget(dev, blockno) -> bget_helper(...)           *)
(***************************************************************************)
\* the call, down to acquire(&buckets[blockno % BUCKETSIZE].lock) of
\* bget_helper(dev, blockno, 0, 0); a process does not ask for a block it
\* holds
BreadCall(p) ==
  \E dev \in Devs, blockno \in Blocks :
    /\ ppc[p] = "idle"
    /\ \A b \in held[p] : ~(b_dev[b] = dev /\ b_blockno[b] = blockno)
    /\ bucket_lock[blockno % BUCKETSIZE] = NoProc
    /\ bucket_lock' = [bucket_lock EXCEPT ![blockno % BUCKETSIZE] = p]
    /\ pl' = [pl EXCEPT ![p] = [dev |-> dev, blockno |-> blockno,
                                target |-> blockno % BUCKETSIZE,
                                steal |-> FALSE, b |-> NULL,
                                wr |-> Written(dev, blockno)]]
    /\ PGoto(p, "bget_scan")
    /\ UNCHANGED <<bufvars, ticks, disk, held, pins, hist>>

\* acquire(&buckets[target].lock) of bget_helper(dev, blockno, i, 1)
BgetStealAcquire(p) ==
  /\ ppc[p] = "bget_lock"
  /\ bucket_lock[pl[p].target] = NoProc
  /\ bucket_lock' = [bucket_lock EXCEPT ![pl[p].target] = p]
  /\ PGoto(p, "bget_scan")
  /\ UNCHANGED <<bufvars, ticks, disk, pl, held, pins, hist>>

\* bget_helper() from the scan for a cached buffer to release(): a hit, a
\* recycled buffer (unlinked if stolen), or 0.  On 0, bget() goes on to the
\* next bucket or panics("no free buf").
BgetScan(p) ==
  /\ ppc[p] = "bget_scan"
  /\ LET l      == pl[p]
         head   == elemhead(l.target)
         cached == IF l.steal THEN NULL
                   ELSE ScanCached(b_next[head], head, l.dev, l.blockno, NBUF)
         ret    == ScanLRU(b_next[head], head, NULL, UINT_MAX, NBUF)
         cur    == l.blockno % BUCKETSIZE
         nextb  == NextBucket(IF l.steal THEN l.target + 1 ELSE 0, cur)
     IN IF cached # NULL
          THEN /\ b_refcnt' = [b_refcnt EXCEPT ![cached] = IF @ = UINT_MAX THEN 0 ELSE @ + 1]
               /\ pl' = [pl EXCEPT ![p].b = cached]
               /\ PGoto(p, "bget_sleep")
               /\ UNCHANGED <<b_dev, b_blockno, b_valid, b_next, b_prev, hist>>
        ELSE IF ret # NULL
          THEN /\ b_dev' = [b_dev EXCEPT ![ret] = l.dev]
               /\ b_blockno' = [b_blockno EXCEPT ![ret] = l.blockno]
               /\ b_valid' = [b_valid EXCEPT ![ret] = 0]
               /\ b_refcnt' = [b_refcnt EXCEPT ![ret] = 1]
               /\ IF l.steal
                    THEN /\ b_next' = [UnlinkNext(b_next, b_prev, ret) EXCEPT ![ret] = NULL]
                         /\ b_prev' = [UnlinkPrev(b_next, b_prev, ret) EXCEPT ![ret] = NULL]
                    ELSE UNCHANGED <<b_next, b_prev>>
               /\ pl' = [pl EXCEPT ![p].b = ret]
               /\ released' = Remove(released, ret)
               /\ dirty' = [dirty EXCEPT ![ret] = FALSE]
               /\ UNCHANGED wslot
               /\ PGoto(p, "bget_sleep")
        ELSE /\ UNCHANGED <<b_dev, b_blockno, b_valid, b_refcnt, b_next, b_prev, hist>>
             /\ IF nextb < BUCKETSIZE
                  THEN /\ pl' = [pl EXCEPT ![p].steal = TRUE, ![p].target = nextb]
                       /\ PGoto(p, "bget_lock")
                  ELSE /\ PGoto(p, "panic")
                       /\ UNCHANGED pl
  /\ bucket_lock' = release(bucket_lock, pl[p].target)
  /\ UNCHANGED <<b_timestamp, b_lock, b_data, ticks, disk, held, pins>>

\* faulty variant: bget_helper() returns without waiting for the sleep lock
BgetSleepNoWait(p) ==
  /\ ppc[p] = "bget_sleep"
  /\ b_lock' = [b_lock EXCEPT ![pl[p].b] = p]
  /\ IF pl[p].steal THEN PGoto(p, "bget_ins_lock") ELSE PGoto(p, "bread_load")
  /\ UNCHANGED <<b_dev, b_blockno, b_valid, b_refcnt, b_timestamp, b_data,
                 b_next, b_prev, bucket_lock, ticks, disk, pl, held, pins, hist>>

\* acquiresleep(&b->lock); return b;  -- back in bget(): a buffer of the
\* home bucket is returned, a stolen one is first inserted
BgetSleep(p) ==
  /\ ppc[p] = "bget_sleep"
  /\ b_lock[pl[p].b] = NoProc
  /\ b_lock' = [b_lock EXCEPT ![pl[p].b] = p]
  /\ IF pl[p].steal THEN PGoto(p, "bget_ins_lock") ELSE PGoto(p, "bread_load")
  /\ UNCHANGED <<b_dev, b_blockno, b_valid, b_refcnt, b_timestamp, b_data,
                 b_next, b_prev, bucket_lock, ticks, disk, pl, held, pins, hist>>

\* acquire(&buckets[cur_bucket].lock)
BgetInsertAcquire(p) ==
  /\ ppc[p] = "bget_ins_lock"
  /\ bucket_lock[pl[p].blockno % BUCKETSIZE] = NoProc
  /\ bucket_lock' = [bucket_lock EXCEPT ![pl[p].blockno % BUCKETSIZE] = p]
  /\ PGoto(p, "bget_ins")
  /\ UNCHANGED <<bufvars, ticks, disk, pl, held, pins, hist>>

\* faulty variant: the stolen buffer is linked into the bucket it came from
BgetInsertVictimBucket(p) ==
  /\ ppc[p] = "bget_ins"
  /\ LET h == elemhead(pl[p].target) IN
       /\ b_next' = PushNext(b_next, b_prev, pl[p].b, h)
       /\ b_prev' = PushPrev(b_next, b_prev, pl[p].b, h)
  /\ bucket_lock' = release(bucket_lock, pl[p].blockno % BUCKETSIZE)
  /\ PGoto(p, "bread_load")
  /\ UNCHANGED <<b_dev, b_blockno, b_valid, b_refcnt, b_timestamp, b_lock,
                 b_data, ticks, disk, pl, held, pins, hist>>

\* ret->next = head.next; ret->prev = &head; ret->next->prev = ret;
\* head.next = ret; release(&buckets[cur_bucket].lock); return ret;
BgetInsert(p) ==
  /\ ppc[p] = "bget_ins"
  /\ LET h == elemhead(pl[p].blockno % BUCKETSIZE) IN
       /\ b_next' = PushNext(b_next, b_prev, pl[p].b, h)
       /\ b_prev' = PushPrev(b_next, b_prev, pl[p].b, h)
  /\ bucket_lock' = release(bucket_lock, pl[p].blockno % BUCKETSIZE)
  /\ PGoto(p, "bread_load")
  /\ UNCHANGED <<b_dev, b_blockno, b_valid, b_refcnt, b_timestamp, b_lock,
                 b_data, ticks, disk, pl, held, pins, hist>>

\* faulty variant: valid is set but the block is not read from the disk
BreadLoadNoLoad(p) ==
  /\ ppc[p] = "bread_load"
  /\ b_valid' = [b_valid EXCEPT ![pl[p].b] = 1]
  /\ held' = [held EXCEPT ![p] = @ \cup {pl[p].b}]
  /\ pl' = [pl EXCEPT ![p] = NoLocals]
  /\ PGoto(p, "idle")
  /\ UNCHANGED <<b_dev, b_blockno, b_refcnt, b_timestamp, b_lock, b_data, b_next,
                 b_prev, bucket_lock, ticks, disk, pins, hist>>

\* if(!b->valid){ virtio_disk_rw(b, 0); b->valid = 1; } return b;
BreadLoad(p) ==
  /\ ppc[p] = "bread_load"
  /\ LET b == pl[p].b IN
       /\ IF b_valid[b] = 0
            THEN /\ b_data' = [b_data EXCEPT ![b] = disk[b_dev[b], b_blockno[b]]]
                 /\ b_valid' = [b_valid EXCEPT ![b] = 1]
            ELSE UNCHANGED <<b_data, b_valid>>
       /\ held' = [held EXCEPT ![p] = @ \cup {b}]
  /\ pl' = [pl EXCEPT ![p] = NoLocals]
  /\ PGoto(p, "idle")
  /\ UNCHANGED <<b_dev, b_blockno, b_refcnt, b_timestamp, b_lock, b_next,
                 b_prev, bucket_lock, ticks, disk, pins, hist>>

(***************************************************************************)
(* brelse(b)                                                               *)
(***************************************************************************)
\* holdingsleep(&b->lock): the sleep lock of b is held, and by process p
holdingsleep(p, b) == b_lock[b] = p

\* if(!holdingsleep(&b->lock)) panic("brelse"); releasesleep(&b->lock);
Brelse(p, b) ==
  /\ ppc[p] = "idle"
  /\ IF holdingsleep(p, b)
       THEN /\ b_lock' = [b_lock EXCEPT ![b] = NoProc]
            /\ PGoto(p, "brelse_lock")
       ELSE /\ PGoto(p, "panic")
            /\ UNCHANGED b_lock
  /\ pl' = [pl EXCEPT ![p] = [NoLocals EXCEPT !.b = b,
                                !.target = b_blockno[b] % BUCKETSIZE]]
  /\ held' = [held EXCEPT ![p] = @ \ {b}]
  /\ UNCHANGED <<b_dev, b_blockno, b_valid, b_refcnt, b_timestamp, b_data,
                 b_next, b_prev, bucket_lock, ticks, disk, pins, hist>>

\* brelse(b) called by a process that holds b
BrelseCall(p) == \E b \in held[p] : Brelse(p, b)

\* brelse(b) called by a process that does not hold b
BrelseStrayCall(p) == \E b \in Bufs \ held[p] : Brelse(p, b)

\* int target = b->blockno % BUCKETSIZE; acquire(&buckets[target].lock);
BrelseAcquire(p) ==
  /\ ppc[p] = "brelse_lock"
  /\ bucket_lock[pl[p].target] = NoProc
  /\ bucket_lock' = [bucket_lock EXCEPT ![pl[p].target] = p]
  /\ PGoto(p, "brelse_upd")
  /\ UNCHANGED <<bufvars, ticks, disk, pl, held, pins, hist>>

\* faulty variant: brelse() does not lower b->refcnt
BrelseUpdateNoCount(p) ==
  /\ ppc[p] = "brelse_upd"
  /\ bucket_lock' = release(bucket_lock, pl[p].target)
  /\ released' = Append(Remove(released, pl[p].b), pl[p].b)
  /\ pl' = [pl EXCEPT ![p] = NoLocals]
  /\ PGoto(p, "idle")
  /\ UNCHANGED <<bufvars, ticks, disk, held, pins, dirty, wslot>>

\* b->refcnt--; if(b->refcnt == 0){ unlink b; push b at the head of
\* buckets[target]; b->timestamp = ticks; } release(&buckets[target].lock);
BrelseUpdate(p) ==
  /\ ppc[p] = "brelse_upd"
  /\ LET b   == pl[p].b
         h   == elemhead(pl[p].target)
         n   == IF b_refcnt[b] = 0 THEN UINT_MAX ELSE b_refcnt[b] - 1
         nx1 == UnlinkNext(b_next, b_prev, b)
         pv1 == UnlinkPrev(b_next, b_prev, b)
     IN /\ b_refcnt' = [b_refcnt EXCEPT ![b] = n]
        /\ IF n = 0
             THEN /\ b_next' = PushNext(nx1, pv1, b, h)
                  /\ b_prev' = PushPrev(nx1, pv1, b, h)
                  /\ b_timestamp' = [b_timestamp EXCEPT ![b] = ticks]
             ELSE UNCHANGED <<b_next, b_prev, b_timestamp>>
  /\ bucket_lock' = release(bucket_lock, pl[p].target)
  /\ released' = Append(Remove(released, pl[p].b), pl[p].b)
  /\ pl' = [pl EXCEPT ![p] = NoLocals]
  /\ PGoto(p, "idle")
  /\ UNCHANGED <<b_dev, b_blockno, b_valid, b_lock, b_data, ticks, disk, held,
                 pins, dirty, wslot>>

(***************************************************************************)
(* bwrite(b), and the holder of a buffer changing its data                 *)
(***************************************************************************)
\* faulty variant: bwrite() does not test holdingsleep()
BwriteNoCheck(p, b) ==
  /\ ppc[p] = "idle"
  /\ disk' = [disk EXCEPT ![b_dev[b], b_blockno[b]] = b_data[b]]
  /\ dirty' = [dirty EXCEPT ![b] = FALSE]
  /\ wslot' = [wslot EXCEPT ![b_blockno[b]] = b]
  /\ PGoto(p, "idle")
  /\ UNCHANGED <<bufvars, bucket_lock, ticks, pl, held, pins, released>>

\* if(!holdingsleep(&b->lock)) panic("bwrite"); virtio_disk_rw(b, 1);
Bwrite(p, b) ==
  /\ ppc[p] = "idle"
  /\ IF holdingsleep(p, b)
       THEN /\ disk' = [disk EXCEPT ![b_dev[b], b_blockno[b]] = b_data[b]]
            /\ dirty' = [dirty EXCEPT ![b] = FALSE]
            /\ wslot' = [wslot EXCEPT ![b_blockno[b]] = b]
            /\ PGoto(p, "idle")
       ELSE /\ PGoto(p, "panic")
            /\ UNCHANGED <<disk, dirty, wslot>>
  /\ UNCHANGED <<bufvars, bucket_lock, ticks, pl, held, pins, released>>

\* bwrite(b) called by a process that holds b, after it has changed the data
BwriteCall(p) == \E b \in held[p] : dirty[b] /\ Bwrite(p, b)

\* bwrite(b) called by a process that does not hold b
BwriteStrayCall(p) == \E b \in Bufs \ held[p] : Bwrite(p, b)

\* the holder of b stores into b->data (as log.c and fs.c do between bread
\* and bwrite)
BufModify(p) ==
  \E b \in held[p] : \E d \in (0..MaxData) \ {b_data[b]} :
    /\ ppc[p] = "idle"
    /\ b_blockno[b] <= MaxWBlock
    /\ b_data' = [b_data EXCEPT ![b] = d]
    /\ dirty' = [dirty EXCEPT ![b] = TRUE]
    /\ PGoto(p, "idle")
    /\ UNCHANGED <<b_dev, b_blockno, b_valid, b_refcnt, b_timestamp, b_lock,
                   b_next, b_prev, bucket_lock, ticks, disk, pl, held, pins,
                   released, wslot>>

(***************************************************************************)
(* bpin(b), bunpin(b): called by a process that holds b                    *)
(***************************************************************************)
\* int target = b->blockno % BUCKETSIZE; acquire(&buckets[target].lock);
BpinCall(p) ==
  \E b \in held[p] :
    /\ ppc[p] = "idle"
    /\ pins[b] < MaxPins
    /\ bucket_lock[b_blockno[b] % BUCKETSIZE] = NoProc
    /\ bucket_lock' = [bucket_lock EXCEPT ![b_blockno[b] % BUCKETSIZE] = p]
    /\ pl' = [pl EXCEPT ![p] = [NoLocals EXCEPT !.b = b,
                                  !.target = b_blockno[b] % BUCKETSIZE]]
    /\ PGoto(p, "bpin_upd")
    /\ UNCHANGED <<bufvars, ticks, disk, held, pins, hist>>

\* faulty variant: bpin() does not raise b->refcnt
BpinUpdateNoCount(p) ==
  /\ ppc[p] = "bpin_upd"
  /\ pins' = [pins EXCEPT ![pl[p].b] = @ + 1]
  /\ bucket_lock' = release(bucket_lock, pl[p].target)
  /\ pl' = [pl EXCEPT ![p] = NoLocals]
  /\ PGoto(p, "idle")
  /\ UNCHANGED <<bufvars, ticks, disk, held, hist>>

\* b->refcnt++; release(&buckets[target].lock);
BpinUpdate(p) ==
  /\ ppc[p] = "bpin_upd"
  /\ b_refcnt' = [b_refcnt EXCEPT ![pl[p].b] = IF @ = UINT_MAX THEN 0 ELSE @ + 1]
  /\ pins' = [pins EXCEPT ![pl[p].b] = @ + 1]
  /\ bucket_lock' = release(bucket_lock, pl[p].target)
  /\ pl' = [pl EXCEPT ![p] = NoLocals]
  /\ PGoto(p, "idle")
  /\ UNCHANGED <<b_dev, b_blockno, b_valid, b_timestamp, b_lock, b_data,
                 b_next, b_prev, ticks, disk, held, hist>>

\* int target = b->blockno % BUCKETSIZE; acquire(&buckets[target].lock);
BunpinCall(p) ==
  \E b \in held[p] :
    /\ ppc[p] = "idle"
    /\ pins[b] > 0
    /\ bucket_lock[b_blockno[b] % BUCKETSIZE] = NoProc
    /\ bucket_lock' = [bucket_lock EXCEPT ![b_blockno[b] % BUCKETSIZE] = p]
    /\ pl' = [pl EXCEPT ![p] = [NoLocals EXCEPT !.b = b,
                                  !.target = b_blockno[b] % BUCKETSIZE]]
    /\ pins' = [pins EXCEPT ![b] = @ - 1]
    /\ PGoto(p, "bunpin_upd")
    /\ UNCHANGED <<bufvars, ticks, disk, held, hist>>

\* b->refcnt--; release(&buckets[target].lock);
BunpinUpdate(p) ==
  /\ ppc[p] = "bunpin_upd"
  /\ b_refcnt' = [b_refcnt EXCEPT ![pl[p].b] = IF @ = 0 THEN UINT_MAX ELSE @ - 1]
  /\ bucket_lock' = release(bucket_lock, pl[p].target)
  /\ pl' = [pl EXCEPT ![p] = NoLocals]
  /\ PGoto(p, "idle")
  /\ UNCHANGED <<b_dev, b_blockno, b_valid, b_timestamp, b_lock, b_data,
                 b_next, b_prev, ticks, disk, held, pins, hist>>

\* the clock interrupt: ticks++
Tick ==
  /\ ticks < MaxTicks
  /\ ticks' = ticks + 1
  /\ UNCHANGED <<kvars, conf, bufvars, bucket_lock, disk, ppc, pl, held, pins,
                 hist, sawfull>>

BStep(p) ==
  \/ BreadCall(p) \/ BgetStealAcquire(p) \/ BgetScan(p) \/ BgetSleep(p)
  \/ BgetInsertAcquire(p) \/ BgetInsert(p) \/ BreadLoad(p)
  \/ BrelseCall(p) \/ BrelseAcquire(p) \/ BrelseUpdate(p)
  \/ BpinCall(p) \/ BpinUpdate(p) \/ BunpinCall(p) \/ BunpinUpdate(p)

Next == (\E p \in Procs : BStep(p)) \/ Tick

\* the buffer cache under processes that call bread, brelse, bpin and bunpin
Spec == Init /\ [][Next]_vars

\* the one process of SpecSolo
Solo == CHOOSE p \in Procs : TRUE

SoloNext == BStep(Solo) \/ Tick

\* the buffer cache used by one process, which is scheduled whenever it can
\* take a step: no other cache operation runs beside its calls
SpecSolo == Init /\ [][SoloNext]_vars /\ WF_vars(BStep(Solo))

\* bread() by a process that holds no buffer
BreadAloneCall(p) == held[p] = {} /\ BreadCall(p)

\* a process that reads a block and releases the buffer before it reads the
\* next block: it holds at most one buffer at a time
TurnStep(p) ==
  \/ BreadAloneCall(p) \/ BgetStealAcquire(p) \/ BgetScan(p) \/ BgetSleep(p)
  \/ BgetInsertAcquire(p) \/ BgetInsert(p) \/ BreadLoad(p)
  \/ BrelseCall(p) \/ BrelseAcquire(p) \/ BrelseUpdate(p)

SpareNext == \E p \in Procs : TurnStep(p)

\* the buffer cache with one buffer more than there are processes, every
\* process reading and releasing one block after the other.  Every process
\* is scheduled again and again, and a process that waits for a spinlock or
\* a sleep lock which is free again and again gets it in the end.
SpecSpare ==
  SpareInit /\ [][SpareNext]_vars /\ \A p \in Procs : SF_vars(TurnStep(p))

BGetRelStep(p) ==
  \/ BreadCall(p) \/ BgetStealAcquire(p) \/ BgetScan(p) \/ BgetSleep(p)
  \/ BgetInsertAcquire(p) \/ BgetInsert(p) \/ BreadLoad(p)
  \/ BrelseCall(p) \/ BrelseAcquire(p) \/ BrelseUpdate(p)

WriteNext == \E p \in Procs : BGetRelStep(p) \/ BufModify(p) \/ BwriteCall(p)

\* the buffer cache under processes that read, change, write and release
SpecWrite == Init /\ [][WriteNext]_vars

BioMisuseNext ==
  \E p \in Procs : BGetRelStep(p) \/ BrelseStrayCall(p) \/ BwriteStrayCall(p)

\* the buffer cache when brelse and bwrite are also called by processes that
\* do not hold the buffer
SpecBioMisuse == Init /\ [][BioMisuseNext]_vars

(***************************************************************************)
(* Properties of the buffer cache.                                         *)
(***************************************************************************)
\* process p is inside bread()/bget() and bget_helper() has chosen a buffer
Chosen(p) == ppc[p] \in {"bget_sleep", "bget_ins_lock", "bget_ins", "bread_load"}

\* the (dev, blockno, buffer) triples process p has got or is getting
Acquired(p) ==
  {<<b_dev[b], b_blockno[b], b>> : b \in held[p]}
    \cup (IF Chosen(p) THEN {<<pl[p].dev, pl[p].blockno, pl[p].b>>} ELSE {})

\* C1: in every reachable state at most one buffer with refcnt > 0 carries
\* a given (dev, blockno).
C1_OneSlotPerBlock ==
  \A b1 \in Bufs : \A b2 \in Bufs :
    (/\ b1 # b2
     /\ b_refcnt[b1] > 0 /\ b_refcnt[b2] > 0
     /\ b_dev[b1] = b_dev[b2])
      => b_blockno[b1] # b_blockno[b2]

\* C2: two processes that get the same (dev, blockno) get the same buffer:
\* at most one of two racing bget() calls gives the identity to a buffer,
\* and the other call finds that buffer.
C2_RacingAcquireConverge ==
  \A p \in Procs : \A q \in Procs \ {p} :
    \A x \in Acquired(p) : \A y \in Acquired(q) :
      (x[1] = y[1] /\ x[2] = y[2]) => x[3] = y[3]

\* C3: a buffer that bread() has returned to a process is sleep-locked by
\* that process until its brelse(): no buffer is held by two processes.
C3_ContentLockExclusive ==
  \A p \in Procs : \A b \in held[p] :
    /\ b_lock[b] = p
    /\ \A q \in Procs \ {p} : b \notin held[q]

\* a process holds a buffer while another process, which found the same
\* buffer cached, sleeps on its lock
C3_Witness ==
  \E p \in Procs : \E q \in Procs \ {p} : \E b \in held[p] :
    /\ ppc[q] = "bget_sleep" /\ pl[q].b = b
    /\ b_lock[b] = p
    /\ b_refcnt[b] = 2


\* process p leaves the scan step of bget_helper()
ScanStep(p) == ppc[p] = "bget_scan" /\ ppc'[p] # "bget_scan"

\* the scan of process p finds its block in the bucket it looks at
ScanHit(p) ==
  /\ ~pl[p].steal
  /\ \E b \in BucketSet(pl[p].target) :
       b_dev[b] = pl[p].dev /\ b_blockno[b] = pl[p].blockno

\* the buckets bget() of process p has still to visit after the current one
Remaining(p) ==
  {i \in Buckets : /\ i # pl[p].blockno % BUCKETSIZE
                   /\ pl[p].steal => i > pl[p].target}

\* C11: a bget() for a block that is not cached, while every buffer has
\* refcnt > 0, changes no buffer, goes from bucket to bucket without
\* waiting for a buffer, and after the last bucket panics ("no free buf").
C11_NoFreeBufPanics ==
  [][\A p \in Procs :
       (ScanStep(p) /\ AllHeld /\ ~ScanHit(p)) =>
         /\ bufvars' = bufvars
         /\ pl'[p].b = NULL
         /\ IF Remaining(p) = {}
              THEN ppc'[p] = "panic"
              ELSE /\ ppc'[p] = "bget_lock"
                   /\ pl'[p].target \in Remaining(p)
                   /\ \A i \in Remaining(p) : pl'[p].target <= i
    ]_vars

\* a bget() has panicked after it found every buffer of every bucket held
C11_Witness ==
  \E p \in Procs :
    /\ ppc[p] = "panic"
    /\ pl[p].steal /\ pl[p].b = NULL
    /\ AllHeld


\* the place of buffer b in the release order (0: not released)
RelPos(b) ==
  IF \E i \in 1..Len(released) : released[i] = b
    THEN CHOOSE i \in 1..Len(released) : released[i] = b
    ELSE 0

\* process p recycles a buffer in the scan step it takes
Recycles(p) == ScanStep(p) /\ ~ScanHit(p) /\ pl'[p].b # NULL

\* C12: when the scan of a bucket picks a victim, no other buffer of that
\* bucket with refcnt 0 had its last brelse() before the victim's last
\* brelse(), ticks or no ticks between the two.
C12_LRUVictimOrder ==
  [][\A p \in Procs :
       Recycles(p) =>
         \A a \in BucketSet(pl[p].target) :
           (/\ a # pl'[p].b
            /\ b_refcnt[a] = 0
            /\ RelPos(a) > 0
            /\ RelPos(pl'[p].b) > 0)
             => RelPos(pl'[p].b) < RelPos(a)
    ]_vars


\* buffer b carries another block of the home bucket of the block that
\* process p is getting
OtherBlockSameBucket(p, b) ==
  /\ b_dev[b] = pl[p].dev
  /\ b_blockno[b] # pl[p].blockno
  /\ b_blockno[b] % BUCKETSIZE = pl[p].blockno % BUCKETSIZE

\* C13: while a process holds the buffer of one block and gets another
\* block of the same home bucket, the held buffer keeps its identity and a
\* refcnt >= 1, and the buffer chosen and returned for the second block is
\* a different one, so that both are resident together.
C13_SameBucketBlocksCoexist ==
  [][\A p \in Procs : \A b \in held[p] :
       /\ b_dev'[b] = b_dev[b] /\ b_blockno'[b] = b_blockno[b]
       /\ b_refcnt[b] >= 1 /\ b_refcnt'[b] >= 1
       /\ (OtherBlockSameBucket(p, b) /\ pl'[p].b # NULL /\ ppc'[p] # "idle")
            => pl'[p].b # b
       /\ (OtherBlockSameBucket(p, b) /\ ppc[p] = "bread_load" /\ ppc'[p] = "idle")
            => /\ pl[p].b # b
               /\ held'[p] = held[p] \cup {pl[p].b}
               /\ b_refcnt'[pl[p].b] >= 1
               /\ b_blockno'[pl[p].b] = pl[p].blockno
    ]_vars

\* a process holds the buffers of two blocks of the same home bucket
C13_Witness ==
  \E p \in Procs : \E b1 \in held[p] : \E b2 \in held[p] :
    /\ b1 # b2
    /\ b_blockno[b1] # b_blockno[b2]
    /\ b_blockno[b1] % BUCKETSIZE = b_blockno[b2] % BUCKETSIZE
    /\ b_refcnt[b1] >= 1 /\ b_refcnt[b2] >= 1


\* C14: brelse(b) or bwrite(b) by a process that does not hold the sleep
\* lock of b panics, and the call changes no buffer, no list, no lock and
\* no disk block.
C14_StrayReleaseWritePanics ==
  [][\A p \in Procs : \A b \in Bufs :
       (b_lock[b] # p /\ (Brelse(p, b) \/ Bwrite(p, b))) =>
         /\ ppc'[p] = "panic"
         /\ bufvars' = bufvars
         /\ bucket_lock' = bucket_lock
         /\ disk' = disk
         /\ hist' = hist
    ]_vars

\* a process has panicked in brelse(b) on a buffer another process holds
C14_Witness ==
  \E p \in Procs : \E q \in Procs \ {p} :
    /\ ppc[p] = "panic"
    /\ pl[p].b \in held[q]
    /\ b_lock[pl[p].b] = q


\* process p returns from bread() in the step it takes
BreadReturns(p) == ppc[p] = "bread_load" /\ ppc'[p] = "idle"

\* C15: a bread() that is called after a block has been written with
\* bwrite() and the buffer used for the write has been recycled for another
\* block returns a buffer whose data are the data written, if nobody has
\* written the block or changed the buffer in the meantime.
C15_WriteReadRoundTrip ==
  [][\A p \in Procs :
       (/\ BreadReturns(p)
        /\ pl[p].wr = <<disk[pl[p].dev, pl[p].blockno]>>
        /\ ~dirty[pl[p].b])
         => b_data'[pl[p].b] = pl[p].wr[1]
    ]_vars


\* process p finishes brelse() in the step it takes
BrelseFinishes(p) == ppc[p] = "brelse_upd" /\ ppc'[p] = "idle"

\* the buffers that carry (dev, blockno), have been released with brelse()
\* and not been recycled since
ReleasedFor(dev, blockno) ==
  {s \in Bufs : RelPos(s) > 0 /\ b_dev[s] = dev /\ b_blockno[s] = blockno}

\* C16: brelse(b) lowers b->refcnt by one and leaves dev, blockno and valid
\* alone; b is moved to the head of its bucket and stamped with ticks only
\* if the count has become 0.  A later bread() of the block, with no
\* recycling in between, gets the released buffer again, still valid, and
\* does not load it from the disk.
C16_ReleaseKeepsIdentity ==
  [][\A p \in Procs :
       /\ BrelseFinishes(p) =>
            LET b == pl[p].b IN
              /\ b_refcnt'[b] = b_refcnt[b] - 1
              /\ b_dev' = b_dev /\ b_blockno' = b_blockno /\ b_valid' = b_valid
              /\ \A c \in Bufs \ {b} : b_refcnt'[c] = b_refcnt[c]
              /\ IF b_refcnt'[b] = 0
                   THEN /\ b_next'[elemhead(b_blockno[b] % BUCKETSIZE)] = b
                        /\ b_timestamp' = [b_timestamp EXCEPT ![b] = ticks]
                   ELSE /\ b_next' = b_next /\ b_prev' = b_prev
                        /\ b_timestamp' = b_timestamp
       /\ (ScanStep(p) /\ ~pl[p].steal
             /\ ReleasedFor(pl[p].dev, pl[p].blockno) # {}) =>
            /\ pl'[p].b \in ReleasedFor(pl[p].dev, pl[p].blockno)
            /\ b_valid' = b_valid
       /\ (BreadReturns(p) /\ RelPos(pl[p].b) > 0) =>
            /\ b_valid[pl[p].b] = 1
            /\ b_data' = b_data
    ]_vars


\* C17: bread(dev, blockno) returns a buffer that carries (dev, blockno),
\* is valid and is sleep-locked by the caller; it reads the block from the
\* disk exactly if the buffer it got was not valid; and a recycled buffer
\* is marked not valid.
C17_ReadReturnsValidLocked ==
  [][\A p \in Procs :
       /\ BreadReturns(p) =>
            LET b == pl[p].b IN
              /\ b_dev'[b] = pl[p].dev /\ b_blockno'[b] = pl[p].blockno
              /\ b_valid'[b] = 1
              /\ b_lock'[b] = p
              /\ held'[p] = held[p] \cup {b}
              /\ IF b_valid[b] = 0
                   THEN b_data' = [b_data EXCEPT ![b] = disk[pl[p].dev, pl[p].blockno]]
                   ELSE b_data' = b_data
       /\ Recycles(p) => b_valid'[pl'[p].b] = 0
    ]_vars

\* a process holds a buffer that was recycled for block MaxBlock and loaded
C17_Witness ==
  \E p \in Procs : \E b \in held[p] :
    /\ b_blockno[b] = MaxBlock
    /\ b_valid[b] = 1
    /\ b_lock[b] = p
    /\ b_data[b] = disk[b_dev[b], MaxBlock]
    /\ b_data[b] # 0


\* the fields of the buffers other than refcnt
BufRest == <<b_dev, b_blockno, b_valid, b_timestamp, b_lock, b_data, b_next, b_prev>>

\* C18: bpin(b) raises and bunpin(b) lowers b->refcnt by one and changes
\* nothing else of any buffer; a buffer with a bpin() not yet undone by a
\* bunpin() is never recycled.
C18_PinKeepsResident ==
  [][\A p \in Procs :
       /\ (ppc[p] = "bpin_upd" /\ ppc'[p] = "idle") =>
            /\ b_refcnt' = [b_refcnt EXCEPT ![pl[p].b] = @ + 1]
            /\ BufRest' = BufRest
       /\ (ppc[p] = "bunpin_upd" /\ ppc'[p] = "idle") =>
            /\ b_refcnt' = [b_refcnt EXCEPT ![pl[p].b] = @ - 1]
            /\ b_refcnt[pl[p].b] >= 1
            /\ BufRest' = BufRest
       /\ Recycles(p) => pins[pl'[p].b] = 0
    ]_vars

\* a pinned buffer that no process holds has been passed over by a bget()
\* that found no free buffer in its bucket
C18_Witness ==
  \E b \in Bufs : \E p \in Procs :
    /\ pins[b] > 0
    /\ b_refcnt[b] = pins[b]
    /\ b_lock[b] = NoProc
    /\ \A q \in Procs : b \notin held[q]
    /\ ppc[p] = "bget_lock"
    /\ pl[p].blockno % BUCKETSIZE = b_blockno[b] % BUCKETSIZE
    /\ b \in BucketSet(pl[p].blockno % BUCKETSIZE)


\* the bucket locks process p holds
BucketLocksOf(p) == {k \in Buckets : bucket_lock[k] = p}

\* C19: no process ever holds the locks of two buckets at the same time.
C19_OneBucketLock ==
  \A p \in Procs : Cardinality(BucketLocksOf(p)) <= 1

\* a bget() holds the lock of a bucket it steals from, and not the lock of
\* its home bucket, which the other process has taken
C19_Witness ==
  \E p \in Procs : \E q \in Procs \ {p} :
    /\ ppc[p] = "bget_scan" /\ pl[p].steal
    /\ BucketLocksOf(p) = {pl[p].target}
    /\ bucket_lock[pl[p].blockno % BUCKETSIZE] = q

\* C20: a process that waits for the sleep lock of a buffer holds no bucket
\* lock, and whenever a process takes a sleep lock it holds no bucket lock.
C20_NoSleepUnderBucketLock ==
  [][\A p \in Procs :
       /\ ppc[p] = "bget_sleep" => BucketLocksOf(p) = {}
       /\ ppc'[p] = "bget_sleep" => BucketLocksOf(p)' = {}
       /\ \A b \in Bufs :
            (b_lock[b] # p /\ b_lock'[b] = p) =>
              (BucketLocksOf(p) = {} /\ BucketLocksOf(p)' = {})
    ]_vars

\* a process waits for the sleep lock of a buffer whose holder is inside
\* bpin() with the lock of the buffer's bucket
C20_Witness ==
  \E p \in Procs : \E q \in Procs \ {p} :
    /\ ppc[p] = "bget_sleep"
    /\ b_lock[pl[p].b] = q
    /\ ppc[q] = "bpin_upd"
    /\ bucket_lock[b_blockno[pl[p].b] % BUCKETSIZE] = q


\* buffer b gets another (dev, blockno) in the step taken
Reassigned(b) == b_dev'[b] # b_dev[b] \/ b_blockno'[b] # b_blockno[b]

\* C24: a buffer gets another identity only while its refcnt is 0: a
\* buffer that is held, pinned, or counted for a process that found it
\* cached and waits for its sleep lock has refcnt > 0 and is recycled by no
\* bget_helper() scan, of the home bucket or of a bucket stolen from.
C24_RecycleOnlyUnheld ==
  [][/\ \A b \in Bufs : Reassigned(b) => b_refcnt[b] = 0
     /\ \A p \in Procs : Recycles(p) => b_refcnt[pl'[p].b] = 0
     /\ \A p \in Procs : \A b \in held[p] : b_refcnt[b] > 0 /\ ~Reassigned(b)
     /\ \A b \in Bufs : pins[b] > 0 => (b_refcnt[b] > 0 /\ ~Reassigned(b))
     /\ \A p \in Procs :
          Chosen(p) => (b_refcnt[pl[p].b] > 0 /\ ~Reassigned(pl[p].b))
    ]_vars

\* a bget() has found the only buffer of its home bucket counted for a
\* process that waits for the sleep lock, has left it alone and goes on to
\* steal
C24_Witness ==
  \E p \in Procs : \E q \in Procs \ {p} :
    /\ ppc[q] = "bget_sleep" /\ ~pl[q].steal
    /\ b_lock[pl[q].b] # NoProc
    /\ ppc[p] = "bget_lock" /\ pl[p].steal
    /\ pl[p].blockno # b_blockno[pl[q].b]
    /\ pl[q].b \in BucketSet(pl[p].blockno % BUCKETSIZE)


\* process p takes the sleep lock of the buffer it has stolen
StolenSleepStep(p) == ppc[p] = "bget_sleep" /\ pl[p].steal /\ ppc'[p] # "bget_sleep"

\* C25: a bget() that steals takes the sleep lock of the stolen buffer only
\* when the buffer is linked into the home bucket, and holds no sleep lock
\* of it when it takes the lock of the home bucket to insert it.
C25_StealInsertBeforeSleepLock ==
  [][\A p \in Procs :
       /\ StolenSleepStep(p) => pl[p].b \in BucketSet(pl[p].blockno % BUCKETSIZE)
       /\ (ppc[p] = "bget_ins_lock" /\ ppc'[p] = "bget_ins") => b_lock[pl[p].b] # p
    ]_vars


\* process p has entered bget() for a block, with some buffer at refcnt 0
BgetEntered(p) == ppc[p] = "bget_scan" /\ ~pl[p].steal /\ ~AllHeld

\* bget() of process p has returned a buffer that p has sleep-locked
BgetReturned(p) ==
  /\ ppc[p] = "bread_load"
  /\ b_lock[pl[p].b] = p
  /\ b_dev[pl[p].b] = pl[p].dev /\ b_blockno[pl[p].b] = pl[p].blockno
  /\ pl[p].b \in BucketSet(pl[p].blockno % BUCKETSIZE)

\* C26: a bget() that runs with no other cache operation beside it, while
\* some buffer of some bucket has refcnt 0, returns a locked buffer for its
\* block and does not panic (it panics only if every buffer has refcnt > 0).
C26_StealingGivesProgress ==
  /\ [](ppc[Solo] = "panic" => AllHeld)
  /\ (BgetEntered(Solo) ~> BgetReturned(Solo))

\* a bget() has returned a buffer stolen from another bucket, the buffers
\* that were in its home bucket all being held
C26_Witness ==
  /\ BgetReturned(Solo)
  /\ pl[Solo].steal
  /\ \A b \in BucketSet(pl[Solo].blockno % BUCKETSIZE) \ {pl[Solo].b} :
       b \in held[Solo] /\ b_refcnt[b] > 0
  /\ BucketSet(pl[Solo].blockno % BUCKETSIZE) # {pl[Solo].b}


\* the home bucket of the block process p is getting
HomeBucket(p) == pl[p].blockno % BUCKETSIZE

\* the home bucket of process p has a buffer with refcnt 0
HomeFree(p) == \E b \in BucketSet(HomeBucket(p)) : b_refcnt[b] = 0

\* the home scan of process p does not find its block
HomeMiss(p) == ScanStep(p) /\ ~pl[p].steal /\ ~ScanHit(p)

\* the fields of buffer b
BufFields(b) == <<b_dev[b], b_blockno[b], b_valid[b], b_refcnt[b], b_timestamp[b],
                  b_lock[b], b_data[b], b_next[b], b_prev[b]>>

\* C27: when the scan of the home bucket does not find the block and the
\* home bucket has a buffer with refcnt 0, the victim is a buffer of the
\* home bucket, no list and no buffer of another bucket changes, and the
\* call takes no other bucket lock; the call goes on to other buckets
\* only if the scan found no buffer with refcnt 0 in the home bucket.
C27_HomeBucketFirst ==
  [][\A p \in Procs :
       /\ (HomeMiss(p) /\ HomeFree(p)) =>
            /\ ppc'[p] = "bget_sleep" /\ ~pl'[p].steal
            /\ pl'[p].b \in BucketSet(HomeBucket(p))
            /\ b_refcnt[pl'[p].b] = 0
            /\ b_next' = b_next /\ b_prev' = b_prev
            /\ \A b \in Bufs \ BucketSet(HomeBucket(p)) : BufFields(b)' = BufFields(b)
            /\ bucket_lock' = release(bucket_lock, HomeBucket(p))
       /\ (HomeMiss(p) /\ pl'[p].steal) => ~HomeFree(p)
       /\ (~pl[p].steal /\ pl'[p].steal) => (HomeMiss(p) /\ ~HomeFree(p))
       /\ (Chosen(p) /\ ~pl[p].steal) =>
            (BucketLocksOf(p) = {} /\ BucketLocksOf(p)' = {})
    ]_vars

\* a bget() has recycled a buffer of its home bucket while another bucket
\* has a buffer with refcnt 0 that was released earlier
C27_Witness ==
  \E p \in Procs : \E a \in Bufs :
    /\ ppc[p] = "bget_sleep" /\ ~pl[p].steal
    /\ b_valid[pl[p].b] = 0
    /\ a \notin BucketSet(HomeBucket(p))
    /\ b_refcnt[a] = 0
    /\ b_timestamp[a] < b_timestamp[pl[p].b]


\* bget() of process p has panicked ("no free buf")
BgetPanicked(p) == ppc[p] = "panic" /\ pl[p].b = NULL /\ pl[p].target # HomeBucket(p)

\* C28: a bget() panics only if at some moment of the call, from its entry
\* to the panic, every buffer of the pool had refcnt > 0.
C28_PanicOnlyWhenPoolFull ==
  \A p \in Procs : BgetPanicked(p) => (sawfull[p] \/ AllHeld)


\* buffer b has been unlinked by a bget() that steals it and has not yet
\* inserted it into its home bucket
Stolen(b) ==
  \E p \in Procs : /\ ppc[p] \in {"bget_sleep", "bget_ins_lock", "bget_ins"}
                    /\ pl[p].steal /\ pl[p].b = b

\* the buckets whose list buffer b is linked into
BucketsOf(b) == {k \in Buckets : b \in BucketSet(k)}

\* the list of bucket k is a circular doubly linked list through its head
WellFormed(k) ==
  LET l == BucketList(k)
      h == elemhead(k)
  IN /\ Cardinality(BucketSet(k)) = Len(l)
     /\ IF l = <<>> THEN b_next[h] = h /\ b_prev[h] = h
                    ELSE b_next[l[Len(l)]] = h /\ b_prev[h] = l[Len(l)]
     /\ \A n \in BucketSet(k) \cup {h} :
          b_prev[b_next[n]] = n /\ b_next[b_prev[n]] = n

\* C29: every buffer is linked into at most one bucket list, into exactly
\* one unless a bget() has unlinked it to steal it and not yet inserted it
\* into its home bucket, and every bucket list is a well-formed circular
\* doubly linked list.
C29_PoolConservation ==
  /\ \A k \in Buckets : WellFormed(k)
  /\ \A b \in Bufs :
       IF Stolen(b)
         THEN BucketsOf(b) = {} /\ b_next[b] = NULL /\ b_prev[b] = NULL
         ELSE Cardinality(BucketsOf(b)) = 1

\* all buffers have migrated into one bucket, in two processes' hands, and
\* the bucket binit() had put one of them into is empty
C29_Witness ==
  \E k \in Buckets : \E j \in Buckets \ {k} :
    /\ BucketSet(k) = Bufs
    /\ BucketSet(j) = {}
    /\ b_next[elemhead(j)] = elemhead(j)
    /\ \A b \in Bufs : \E p \in Procs : b \in held[p]
    /\ \E p \in Procs : \E q \in Procs \ {p} : held[p] # {} /\ held[q] # {}


\* process p is in brelse(), bpin() or bunpin() after the line
\* int target = b->blockno % BUCKETSIZE
InBucketOp(p) == ppc[p] \in {"brelse_lock", "brelse_upd", "bpin_upd", "bunpin_upd"}

\* C30: the bucket whose lock brelse(b), bpin(b) or bunpin(b) takes is the
\* bucket whose list holds b; every buffer with refcnt > 0 that is linked
\* into a list is in the list of bucket blockno % BUCKETSIZE.
C30_BucketMatchesBlock ==
  /\ \A b \in Bufs :
       (b_refcnt[b] > 0 /\ BucketsOf(b) # {}) =>
         BucketsOf(b) = {b_blockno[b] % BUCKETSIZE}
  /\ \A p \in Procs :
       InBucketOp(p) =>
         /\ pl[p].target = b_blockno[pl[p].b] % BUCKETSIZE
         /\ BucketsOf(pl[p].b) = {pl[p].target}

\* brelse() holds the lock of the bucket a buffer was stolen into, which is
\* not the bucket binit() had put it into
C30_Witness ==
  \E p \in Procs :
    /\ ppc[p] = "brelse_upd"
    /\ bucket_lock[pl[p].target] = p
    /\ BucketOfNode(pl[p].b) # pl[p].target
    /\ pl[p].b \in BucketSet(pl[p].target)
    /\ b_refcnt[pl[p].b] = 1


\* the processes that bget_helper() has counted for buffer b and whose
\* brelse() has not yet lowered the count: they hold b, are on their way
\* out of bread() with it, or are inside brelse(b) before b->refcnt--
Users(b) ==
  {p \in Procs : \/ b \in held[p]
                 \/ Chosen(p) /\ pl[p].b = b
                 \/ ppc[p] \in {"brelse_lock", "brelse_upd"} /\ pl[p].b = b}

\* the processes inside bunpin(b) before b->refcnt--
Unpinning(b) == {p \in Procs : ppc[p] = "bunpin_upd" /\ pl[p].b = b}

\* process p waits for the sleep lock of buffer b
WaitsFor(p, b) == ppc[p] = "bget_sleep" /\ pl[p].b = b

\* C31: the refcnt of a buffer is the number of bget() calls that chose it
\* and have not been matched by the decrement of a brelse(), plus the
\* bpin() calls not yet matched by the decrement of a bunpin(); it never
\* wraps below 0, and it is > 0 while a process holds or waits for the
\* sleep lock of the buffer.
C31_RefcntCountsHolders ==
  \A b \in Bufs :
    /\ b_refcnt[b] = Cardinality(Users(b)) + pins[b] + Cardinality(Unpinning(b))
    /\ b_refcnt[b] >= 0 /\ b_refcnt[b] < UINT_MAX
    /\ (b_lock[b] # NoProc \/ \E p \in Procs : WaitsFor(p, b)) => b_refcnt[b] > 0

\* a buffer is held and pinned by one process while another, which found it
\* cached, waits for its sleep lock: refcnt 3
C31_Witness ==
  \E b \in Bufs : \E p \in Procs : \E q \in Procs \ {p} :
    /\ b \in held[p] /\ pins[b] = 1
    /\ WaitsFor(q, b) /\ ~pl[q].steal
    /\ b_refcnt[b] = 3


\* bread() of process p has called bget()
BgetCalled(p) == ppc[p] = "bget_scan" /\ ~pl[p].steal

\* C32 as stated: with fewer processes than buffers, each process reading a
\* block and releasing it before it reads the next, the cache never stops
\* (no process is left in panic() and some process can always take a step),
\* and under fair scheduling every bget() call returns a buffer that the
\* caller has sleep-locked.
C32_NoDeadlockBgetReturns ==
  /\ [](ENABLED SpareNext /\ \A p \in Procs : ppc[p] # "panic")
  /\ \A p \in Procs : BgetCalled(p) ~> BgetReturned(p)


(***************************************************************************)
(* Properties of the page allocator.                                       *)
(***************************************************************************)
RefCnt(f) == page_ref_cnt[PageIdx(f)]

\* hart t is in kalloc() with frame f popped and its count not yet set
AllocTransit(t, f) == kpc[t] \in {"ka_fill", "ka_init_acq", "ka_init"} /\ kpa[t] = f

\* hart t is in kfree() with the count of f at 0 and f not yet pushed
FreeTransit(t, f) == kpc[t] \in {"kf_fill", "kf_lock", "kf_push"} /\ kpa[t] = f

InTransit(f) == \E t \in Harts : AllocTransit(t, f) \/ FreeTransit(t, f)

\* hart t takes a step from position l
KLeaves(t, l) == kpc[t] = l /\ kpc'[t] # l

\* C4 as stated: in every reachable state, intermediate states of running
\* kalloc()/kfree() calls included, every frame is either (refcount 0 and on
\* the free list) or (refcount >= 1 and on no free list).
C4_FrameFreeIffZeroAlways ==
  \A f \in Frames : \/ RefCnt(f) = 0 /\ f \in FreeSet
                    \/ RefCnt(f) >= 1 /\ f \notin FreeSet

\* C4 amended: under callers that follow the contract, every frame that no
\* running kalloc()/kfree() call holds between its free-list step and its
\* refcount step is either (refcount 0 and on the free list) or (refcount
\* >= 1 and on no free list); a frame such a call holds has refcount 0 and
\* is on no free list, and exactly one call holds it.
C4_FrameFreeIffZeroQuiescent ==
  \A f \in Frames :
    IF InTransit(f)
      THEN /\ RefCnt(f) = 0
           /\ f \notin FreeSet
           /\ Cardinality({t \in Harts : AllocTransit(t, f) \/ FreeTransit(t, f)}) = 1
      ELSE \/ RefCnt(f) = 0 /\ f \in FreeSet
           \/ RefCnt(f) >= 1 /\ f \notin FreeSet

\* C4 witness: one frame is between kfree()'s decrement to 0 and its push
\* while another hart holds a popped frame whose count is not yet set
C4_Witness ==
  \E t, u \in Harts, f, g \in Frames :
    /\ t # u /\ f # g
    /\ FreeTransit(t, f) /\ AllocTransit(u, g)
    /\ C4_FrameFreeIffZeroQuiescent

\* C5: no frame is owned by two harts at once, and a frame that kalloc() is
\* handing out or has just returned is mapped by no other hart.
C5_ExclusiveOwnership ==
  /\ \A t, u \in Harts : t # u => owned[t] \cap owned[u] = {}
  /\ \A t, u \in Harts : \A f \in Frames :
       AllocTransit(t, f) => f \notin Mapped(u)
  /\ \A t, u \in Harts :
       (t # u /\ kpc[t] = "idle" /\ kret[t] # <<>> /\ kret[t] # <<NULL>>)
         => kret[t][1] \notin Mapped(u)

\* C5 witness: both harts own a frame at the same time, one of them having
\* just returned from kalloc()
C5_Witness ==
  \E t, u \in Harts :
    /\ t # u /\ owned[t] # {} /\ owned[u] # {}
    /\ kpc[t] = "idle" /\ kret[t] # <<>> /\ kret[t] # <<NULL>>
    /\ kret[t][1] \in owned[t]

\* C6: kfree() of a frame with refcount n > 1 only decrements the count:
\* the frame stays off the free list, its contents and every other count
\* are untouched and the call returns; with n = 1 the count becomes 0, the
\* call goes on to junk-fill the frame, and its last step puts the frame on
\* the free list.
C6_FreeOnlyDecrementsShared ==
  [][\A t \in Harts :
       /\ KLeaves(t, "kf_dec") =>
            LET f == kpa[t]
                n == RefCnt(f)
            IN /\ n > 1 =>
                    /\ page_ref_cnt' = [page_ref_cnt EXCEPT ![PageIdx(f)] = n - 1]
                    /\ kpc'[t] = "idle"
                    /\ UNCHANGED <<kmem_freelist, run_next, mem>>
                    /\ f \notin FreeSet'
               /\ n = 1 =>
                    /\ page_ref_cnt' = [page_ref_cnt EXCEPT ![PageIdx(f)] = 0]
                    /\ kpc'[t] = "kf_fill"
       /\ KLeaves(t, "kf_fill") => mem'[kpa[t]] = JUNK1
       /\ KLeaves(t, "kf_push") =>
            /\ kpa[t] \in FreeSet' /\ RefCnt(kpa[t]) = 0
            /\ mem[kpa[t]] = JUNK1 /\ UNCHANGED page_ref_cnt
    ]_vars

\* C6 witness: a frame that two harts had mapped has survived the kfree() of
\* its owner: one mapping and a count of 1 remain, the contents are those
\* kalloc() left, and no call on it is running
C6_Witness ==
  \E f \in Frames, u \in Harts :
    /\ f \in shared[u]
    /\ \A t \in Harts : f \notin owned[t] /\ kpa[t] # f
    /\ RefCnt(f) = 1 /\ f \notin FreeSet /\ mem[f] = JUNK5

\* C7: a kalloc() that finds a frame takes the head of the free list, which
\* leaves the list while every other frame stays where it is and no count
\* changes; its last step sets the count of that frame to 1, whatever it
\* was, and changes no other count and no list membership.
C7_AllocPopsAndSetsOne ==
  [][\A t \in Harts :
       /\ (KLeaves(t, "ka_pop") /\ kmem_freelist # NULL) =>
            /\ kpa'[t] = kmem_freelist
            /\ kmem_freelist \in FreeSet
            /\ FreeSet' = FreeSet \ {kmem_freelist}
            /\ UNCHANGED page_ref_cnt
       /\ KLeaves(t, "ka_fill") =>
            /\ FreeSet' = FreeSet /\ UNCHANGED page_ref_cnt
       /\ KLeaves(t, "ka_init") =>
            /\ page_ref_cnt' = [page_ref_cnt EXCEPT ![PageIdx(kpa[t])] = 1]
            /\ FreeSet' = FreeSet
            /\ kret'[t] = <<kpa[t]>>
    ]_vars

\* C7 witness: kalloc() is about to set the count of a popped frame whose
\* count is not 0
C7_Witness ==
  \E t \in Harts :
    /\ kpc[t] = "ka_init" /\ page_ref_cnt_lock = t
    /\ kpa[t] \in Frames /\ RefCnt(kpa[t]) > 0
    /\ kpa[t] \notin FreeSet

\* C8: kalloc() that finds the free list empty returns 0 at once, without
\* panic, and changes no list and no count; and kalloc() returns 0 only if
\* the list was empty when it looked.
C8_OutOfMemory ==
  [][\A t \in Harts :
       /\ KLeaves(t, "ka_acq") =>
            UNCHANGED <<kmem_freelist, run_next, page_ref_cnt, mem>>
       /\ KLeaves(t, "ka_pop") =>
            /\ kmem_freelist = NULL =>
                 /\ kpc'[t] = "idle" /\ kret'[t] = <<NULL>>
                 /\ kmem_lock' = NoHart
                 /\ UNCHANGED <<kmem_freelist, run_next, page_ref_cnt, mem, owned>>
            /\ kret'[t] = <<NULL>> => kmem_freelist = NULL
       /\ (kret[t] # <<NULL>> /\ kret'[t] = <<NULL>>) =>
            (kpc[t] = "ka_pop" /\ kmem_freelist = NULL)
    ]_vars

\* C8 witness: a kalloc() has returned 0 while every frame is allocated
C8_Witness ==
  \E t \in Harts :
    /\ kpc[t] = "idle" /\ kret[t] = <<NULL>>
    /\ kmem_freelist = NULL
    /\ \A f \in Frames : RefCnt(f) >= 1

\* C9: kfree(pa) with pa not page aligned, below end, or at or above
\* PHYSTOP panics, and does so before it takes a lock, changes a count or
\* touches the free list; a hart that has panicked never runs again.
C9_FreeBadAddressPanics ==
  [][\A t \in Harts :
       /\ (KLeaves(t, "kf_check")
            /\ (kpa[t] % PGSIZE # 0 \/ kpa[t] < end \/ kpa[t] >= PHYSTOP)) =>
            /\ kpc'[t] = "panic"
            /\ UNCHANGED <<page_ref_cnt, page_ref_cnt_lock, kmem_lock,
                           kmem_freelist, run_next, mem>>
       /\ (KLeaves(t, "kf_check") /\ kpa[t] \in Frames) => kpc'[t] = "kf_acq"
       /\ kpc[t] = "panic" => kpc'[t] = "panic"
    ]_vars

\* C9 witnesses: a misaligned address, an address below end and PHYSTOP
\* have each led to the panic with the allocator state intact
C9_Witness ==
  /\ \E t \in Harts : kpc[t] = "panic" /\ kpa[t] \in BadAddrs
  /\ page_ref_cnt_lock = NoHart /\ kmem_lock = NoHart

\* C10 as stated: kfree() of a frame whose refcount is already 0 panics; it
\* neither leaves the count at 0 and goes on, nor pushes the frame.
C10_UnderflowPanics ==
  [][\A t \in Harts :
       (KLeaves(t, "kf_dec") /\ RefCnt(kpa[t]) = 0) => kpc'[t] = "panic"
    ]_vars

\* C10 for minus_ref_cnt(): a decrement at count 0 panics and does not wrap
C10_MinusRefUnderflowPanics ==
  [][\A t \in Harts :
       (KLeaves(t, "mr_dec") /\ RefCnt(kpa[t]) = 0) =>
         (kpc'[t] = "panic" /\ UNCHANGED page_ref_cnt)
    ]_vars

\* the locks hart t holds
LocksOf(t) ==
  (IF page_ref_cnt_lock = t THEN {"page_ref_cnt_lock"} ELSE {})
    \cup (IF kmem_lock = t THEN {"kmem.lock"} ELSE {})

\* C21: no hart holds page_ref_cnt_lock and kmem.lock at the same time, in
\* kalloc(), kfree() or add_ref_cnt(): every hart holds at most one lock,
\* and a hart holds page_ref_cnt_lock only at the steps that read or write
\* a count and kmem.lock only at the steps that read or write the list.
C21_RefLockNeverNested ==
  \A t \in Harts :
    /\ Cardinality(LocksOf(t)) <= 1
    /\ page_ref_cnt_lock = t <=> kpc[t] \in {"ka_init", "kf_dec", "ar_inc"}
    /\ kmem_lock = t <=> kpc[t] \in {"ka_pop", "kf_push"}

\* C21 witness: one hart is in kfree() with page_ref_cnt_lock while another
\* is in kalloc() with kmem.lock
C21_Witness ==
  \E t \in Harts : \E u \in Harts \ {t} :
    /\ kpc[t] = "kf_dec" /\ page_ref_cnt_lock = t
    /\ kpc[u] = "ka_pop" /\ kmem_lock = u

\* hart t has taken frame f with kalloc() and frame g is all that is left
\* in the free list
LastFrameLeft(t, f, g) == owned[t] = {f} /\ g # f /\ FreeSet = {g}

C23_IncrementRefAddsOne ==
  [][\A t \in Harts :
       KLeaves(t, "ar_inc") =>
         page_ref_cnt' = [page_ref_cnt EXCEPT ![PageIdx(kpa[t])] = @ + 1]
    ]_vars

\* hart t is inside kfree(f) and has not yet executed the decrement
Freeing(t, f) == kpc[t] \in {"kf_check", "kf_acq", "kf_dec"} /\ kpa[t] = f

\* the harts that have frame f mapped
Mappers(f) == {t \in Harts : f \in Mapped(t)}

\* C33: when the harts that share a frame (count n >= 2) call kfree() on it
\* concurrently, every call lowers the count by one, only the call that
\* brings it to 0 goes on to memset(pa, 1, PGSIZE) and pushes the frame, the
\* frame is pushed once, and the decrement and the test of a call are made
\* while the call holds page_ref_cnt_lock, as is the increment of
\* add_ref_cnt().
C33_LastFreeReclaimsOnce ==
  /\ [](\A f \in Frames :
         /\ RefCnt(f) = Cardinality(Mappers(f))
                         + Cardinality({t \in Harts : Freeing(t, f)})
         /\ Cardinality({t \in Harts : FreeTransit(t, f)}) <= 1
         /\ \A t \in Harts :
              FreeTransit(t, f) =>
                /\ RefCnt(f) = 0
                /\ f \notin FreeSet
                /\ mem[f] = JUNK1 \/ kpc[t] = "kf_fill"
                /\ \A u \in Harts : ~Freeing(u, f))
  /\ [](\A t \in Harts :
         kpc[t] \in {"kf_dec", "ar_inc"} => page_ref_cnt_lock = t)
  /\ [][\A t \in Harts :
         /\ KLeaves(t, "kf_dec") =>
              /\ RefCnt(kpa[t]) >= 1
              /\ page_ref_cnt' = [page_ref_cnt EXCEPT ![PageIdx(kpa[t])] = @ - 1]
              /\ kpc'[t] = "kf_fill" <=> RefCnt(kpa[t]) = 1
              /\ kpc'[t] = "idle" <=> RefCnt(kpa[t]) >= 2
         /\ KLeaves(t, "kf_push") =>
              /\ kpa[t] \notin FreeSet
              /\ kmem_freelist' = kpa[t]
              /\ FreeSet' = FreeSet \cup {kpa[t]}
    ]_vars

\* C33 witness: a frame has count 2 and both harts that map it are inside
\* kfree() of it, one at the decrement, the other waiting for the lock
C33_Witness ==
  \E f \in Frames : \E t \in Harts : \E u \in Harts \ {t} :
    /\ RefCnt(f) = 2
    /\ kpc[t] = "kf_dec" /\ kpa[t] = f
    /\ kpc[u] = "kf_acq" /\ kpa[u] = f

\* the run->next chain that starts at p, as the sequence of the frames
\* visited by at most fuel steps
RECURSIVE FreeChain(_, _)
FreeChain(p, fuel) ==
  IF p \notin Frames \/ fuel = 0 THEN <<>>
  ELSE <<p>> \o FreeChain(run_next[p], fuel - 1)

\* kmem.freelist, followed one step further than there are frames
FreeList == FreeChain(kmem_freelist, NFrames + 1)

\* C34 as stated: after kinit() and any calls of kalloc(), kfree() and
\* add_ref_cnt() with page addresses, kfree() of a frame that is already
\* free included, no frame is linked into kmem.freelist more than once, and
\* kalloc() never takes a frame that a hart still has from an earlier
\* kalloc() and has not freed.
C34_NoFrameTwiceInFreeList ==
  /\ [](\A i, j \in 1..Len(FreeList) : FreeList[i] = FreeList[j] => i = j)
  /\ [][\A t \in Harts :
         (KLeaves(t, "ka_pop") /\ kmem_freelist \in Frames) =>
           \A u \in Harts : /\ kmem_freelist \notin Mapped(u)
                            /\ ~AllocTransit(u, kmem_freelist)
    ]_vars

====
